---------------------------- MODULE Spec2Model ----------------------------
(***************************************************************************)
(* Memory-aware job admission and accounting core of the patched GNU make  *)
(* (src/src/main.c): the shared accounting region and reserve_memory_mb,   *)
(* the profile store update, the host memory probe, the admission gate and *)
(* the parts of the monitor thread that act on the shared region.          *)
(*                                                                         *)
(* unsigned long values are 64 bits wide.  A value v is represented by the *)
(* integer r with r = v when v is small and r = v - 2^64 when v is within  *)
(* a small distance below 2^64 (a counter that wrapped below zero).  On    *)
(* these representatives +, - are the machine's + and - modulo 2^64, and   *)
(* the unsigned order is ULt below.                                        *)
(***************************************************************************)
EXTENDS Integers, Sequences, FiniteSets, TLC

\* ------------------------------------------------------------ bounds

\* Number of reservation slots.  The source sets MAX_RESERVATIONS to 64
\* (main.c:861); the model runs the same code over a smaller table.
MAX_RESERVATIONS == 2
\* Largest amount (MiB) a caller reserves and largest stored profile peak.
MaxMb == 2
\* Number of calls (reserve_memory_mb, may_spawn) and of publications of
\* unused peaks that the threads start.
MaxCalls == 3
\* Number of job processes.
MaxJobs == 1
\* Largest free memory (MiB) the host reports.
MaxFreeMb == 3
\* Number of entries of the profile store.
MaxProfiles == 2
\* Largest peak (MiB) a profile update observes or finds stored.
MaxPeak == 7
\* Number of entries of the monitor's descendant table.  The source sets
\* MAX_TRACKED_DESCENDANTS to 100 (main.c:51); the model runs the same code
\* over a smaller table.
MAX_TRACKED_DESCENDANTS == 2
\* Largest resident set (MiB) of a process of the build.
MaxRss == 1
\* Largest number of characters of a command line.
MaxTextLen == 5
MaxStops == 2
\* Seconds between two saves of the profiles by the monitor loop.  The source
\* has 10 (main.c:1866); the model runs the same code with a shorter gap.
SaveGap == 2
\* Last reading of time (NULL), in seconds since the start of the epoch.
MaxNow == 7

\* ------------------------------------------------------------ state

VARIABLES
  \* struct shared_memory_data (main.c:868-877)
  reservation_count,        \* volatile unsigned int reservation_count
  reservations,             \* slot -> [pid, reserved_mb]
  unused_peaks_mb,          \* volatile unsigned long unused_peaks_mb
  total_reserved_mb,        \* volatile unsigned long total_reserved_mb
  reserved_count_mutex,     \* holder thread, or NoThread
  total_reserved_mb_mutex,  \* holder thread, or NoThread
  \* threads and processes
  th,                       \* thread -> frame of the call in progress
  alive,                    \* process -> BOOLEAN (FALSE once it was killed)
  calls,                    \* number of calls started so far
  \* admission gate and host
  gate,                     \* thread -> frame of the may_spawn call in progress
  meminfo,                  \* what /proc/meminfo holds
  \* profile store (main.c: memory_profiles, memory_profiles_dirty)
  memory_profiles,          \* profile index -> peak_memory_mb
  memory_profiles_dirty,    \* static int memory_profiles_dirty
  last_record,              \* history: the last profile update and what it found
  \* processes of the build and the monitor thread (main.c:888-897)
  procs,                    \* job pid -> what the OS and the spawner know of it
  descendants,              \* main_monitoring_data.descendants[]
  compile_count,            \* main_monitoring_data.compile_count
  mon,                      \* position and locals of the monitor loop
  hist,                     \* history: what the last ticks saw and did
  \* classifier of command lines (extract_filename_common)
  cls,                      \* the text classified and what was returned
  \* life cycle of the make processes (init, monitor start and stop, die)
  ps,                       \* process -> its own globals and statics
  host                      \* the shm name, stderr, the cache file; history

shared == <<reservation_count, reservations, unused_peaks_mb,
            total_reserved_mb, reserved_count_mutex, total_reserved_mb_mutex>>
gateVars == <<gate, meminfo>>
profVars == <<memory_profiles, memory_profiles_dirty, last_record>>
monVars == <<procs, descendants, compile_count, mon, hist>>
sideVars == <<cls, ps, host>>
env == <<gateVars, profVars, monVars, sideVars>>
vars == <<shared, th, alive, calls, env>>

\* ------------------------------------------------------------ processes

\* The threads that call into the accounting region: the main thread and the
\* monitor thread of the top-level make, and the main thread of a sub-make.
Threads == {"main", "mon", "sub"}
NoThread == "none"
Procs == {"top", "submake"}

\* The process a thread belongs to.
ProcOf(t) == IF t = "sub" THEN "submake" ELSE "top"

\* getpid() of a process.
PidOfProc(p) == IF p = "top" THEN 10 ELSE 11
getpid(t) == PidOfProc(ProcOf(t))

\* Pids of the job (compiler) processes, children of a make process.
JobPids == 12 .. (11 + MaxJobs)

\* Pid of the process a job runs as a child of its own (the compiler proper
\* under its driver).
KidPid(c) == c + 20
KidPids == {KidPid(c) : c \in JobPids}
AllPids == JobPids \cup KidPids

\* Pid of another sub-make of the build that holds reservation slot i and
\* makes no call while the model runs.
OtherPid(i) == 20 + i

Slots == 0 .. (MAX_RESERVATIONS - 1)
NULL == -1

\* ------------------------------------------------------------ unsigned long

\* a < b on unsigned long, on representatives: a negative representative
\* stands for a value just below 2^64.
ULt(a, b) == IF (a < 0) = (b < 0) THEN a < b ELSE b < 0

\* Sum of reserved_mb over the occupied slots (pid != 0).
RECURSIVE SumOccupied(_, _)
SumOccupied(tab, n) ==
  IF n = 0 THEN 0
  ELSE SumOccupied(tab, n - 1)
       + (IF tab[n - 1].pid # 0 THEN tab[n - 1].reserved_mb ELSE 0)

TableSum == SumOccupied(reservations, MAX_RESERVATIONS)


\* ------------------------------------------------------------ call frames

\* Frame of a thread that is not inside reserve_memory_mb.
IdleFrame ==
  [pc |-> "idle", pid |-> 0, mb |-> 0, count |-> 0, i |-> 0, res |-> NULL,
   empty_slot |-> NULL, old_value |-> 0, ret |-> 0, path |-> "none",
   touched |-> FALSE, overlap |-> FALSE, from |-> "none"]

\* Thread u is inside reserve_memory_mb.
InCall(u) == th[u].pc \notin {"idle", "r_done"}

Running(t) == alive[ProcOf(t)]

\* Entry of reserve_memory_mb (pid, mb, filepath); shared_data is mapped.
\* from names the caller, which continues when the call has returned.
\* overlap (history) records that another thread's call for the same pid ran
\* while this call was in progress.
Enter(t, p, m, caller) ==
  [u \in Threads |->
     IF u = t
     THEN [IdleFrame EXCEPT !.pc = "r_count", !.pid = p, !.mb = m,
                            !.from = caller,
                            !.overlap = \E v \in Threads \ {t} :
                                          InCall(v) /\ th[v].pid = p]
     ELSE IF InCall(u) /\ th[u].pid = p
          THEN [th[u] EXCEPT !.overlap = TRUE]
          ELSE th[u]]

\* The frame of a call that has returned r through exit path how; the locals
\* of the finished call are dead.
Returned(f, r, how) ==
  [IdleFrame EXCEPT !.pc = "r_done", !.pid = f.pid, !.mb = f.mb, !.ret = r,
                    !.path = how, !.touched = f.touched, !.overlap = f.overlap,
                    !.from = f.from]

\* ------------------------------------------------------------ reserve_memory_mb

\* main.c:1246  count = shared_data->reservation_count;
ReadCount(t) ==
  /\ Running(t) /\ th[t].pc = "r_count"
  /\ th' = [th EXCEPT ![t].count = reservation_count, ![t].i = 0,
                      ![t].pc = "r_lookup"]
  /\ UNCHANGED <<shared, alive, calls, env>>

\* main.c:1249-1257  one iteration of the search for the pid's entry in
\* reservations[0 .. count), and at its end  if (!res) { if (mb == 0) return 0;
Lookup(t) ==
  /\ Running(t) /\ th[t].pc = "r_lookup"
  /\ LET f == th[t] IN
       IF f.i < f.count /\ f.i < MAX_RESERVATIONS
       THEN IF reservations[f.i].pid = f.pid
            THEN th' = [th EXCEPT ![t].res = f.i, ![t].pc = "r_old"]
            ELSE th' = [th EXCEPT ![t].i = f.i + 1]
       ELSE IF f.mb = 0
            THEN th' = [th EXCEPT ![t] = Returned(f, 0, "nothing")]
            ELSE th' = [th EXCEPT ![t].pc = "r_lock_count"]
  /\ UNCHANGED <<shared, alive, calls, env>>

\* main.c:1258-1259  pthread_mutex_lock (&shared_data->reserved_count_mutex);
\* count = shared_data->reservation_count;   (blocks while the mutex is held)
LockCount(t) ==
  /\ Running(t) /\ th[t].pc = "r_lock_count"
  /\ reserved_count_mutex = NoThread
  /\ reserved_count_mutex' = t
  /\ th' = [th EXCEPT ![t].count = reservation_count, ![t].i = 0,
                      ![t].pc = "r_scan"]
  /\ UNCHANGED <<reservation_count, reservations, unused_peaks_mb,
                 total_reserved_mb, total_reserved_mb_mutex, alive, calls, env>>

\* The no-slot exit without the unlock of main.c:1277.
NoSlotExit_KeepsLock(t) ==
  /\ UNCHANGED reserved_count_mutex
  /\ th' = [th EXCEPT ![t] = Returned(th[t], 0, "noslot")]

\* main.c:1275-1280  no slot is free:
\* pthread_mutex_unlock (&shared_data->reserved_count_mutex);  return 0;
NoSlotExit(t) ==
  /\ reserved_count_mutex' = NoThread
  /\ th' = [th EXCEPT ![t] = Returned(th[t], 0, "noslot")]

\* main.c:1262-1266  one iteration of the search for a slot with pid == 0,
\* and the exit when there is none.
ScanEmpty(t) ==
  /\ Running(t) /\ th[t].pc = "r_scan"
  /\ LET f == th[t] IN
       IF f.i < MAX_RESERVATIONS
       THEN /\ IF reservations[f.i].pid = 0
               THEN th' = [th EXCEPT ![t].empty_slot = f.i, ![t].res = f.i,
                                     ![t].pc = "r_set_pid"]
               ELSE th' = [th EXCEPT ![t].i = f.i + 1]
            /\ UNCHANGED reserved_count_mutex
       ELSE NoSlotExit(t)
  /\ UNCHANGED <<reservation_count, reservations, unused_peaks_mb,
                 total_reserved_mb, total_reserved_mb_mutex, alive, calls, env>>

\* main.c:1271  res->pid = pid;
SetPid(t) ==
  /\ Running(t) /\ th[t].pc = "r_set_pid"
  /\ reservations' = [reservations EXCEPT ![th[t].res].pid = th[t].pid]
  /\ th' = [th EXCEPT ![t].pc = "r_set_zero", ![t].touched = TRUE]
  /\ UNCHANGED <<reservation_count, unused_peaks_mb, total_reserved_mb,
                 reserved_count_mutex, total_reserved_mb_mutex, alive, calls, env>>

\* main.c:1272  res->reserved_mb = 0;
SetZero(t) ==
  /\ Running(t) /\ th[t].pc = "r_set_zero"
  /\ reservations' = [reservations EXCEPT ![th[t].res].reserved_mb = 0]
  /\ th' = [th EXCEPT ![t].pc = "r_set_count", ![t].touched = TRUE]
  /\ UNCHANGED <<reservation_count, unused_peaks_mb, total_reserved_mb,
                 reserved_count_mutex, total_reserved_mb_mutex, alive, calls, env>>

\* main.c:1274 and 1282  if (empty_slot >= count) reservation_count =
\* empty_slot + 1;  pthread_mutex_unlock (&shared_data->reserved_count_mutex);
SetCount(t) ==
  /\ Running(t) /\ th[t].pc = "r_set_count"
  /\ reservation_count' = IF th[t].empty_slot >= th[t].count
                          THEN th[t].empty_slot + 1 ELSE reservation_count
  /\ reserved_count_mutex' = NoThread
  /\ th' = [th EXCEPT ![t].pc = "r_old", ![t].touched = TRUE]
  /\ UNCHANGED <<reservations, unused_peaks_mb, total_reserved_mb,
                 total_reserved_mb_mutex, alive, calls, env>>

\* main.c:1285-1288  old_value = res->reserved_mb;  if (mb <= 0) ... else ...
ReadOld(t) ==
  /\ Running(t) /\ th[t].pc = "r_old"
  /\ th' = [th EXCEPT ![t].old_value = reservations[th[t].res].reserved_mb,
                      ![t].pc = IF th[t].mb <= 0 THEN "r_lock_rel"
                                ELSE "r_write"]
  /\ UNCHANGED <<shared, alive, calls, env>>

\* main.c:1289 and 1307  pthread_mutex_lock (&shared_data->total_reserved_mb_mutex);
LockTotal(t) ==
  /\ Running(t) /\ th[t].pc \in {"r_lock_rel", "r_lock_add"}
  /\ total_reserved_mb_mutex = NoThread
  /\ total_reserved_mb_mutex' = t
  /\ th' = [th EXCEPT ![t].pc = IF th[t].pc = "r_lock_rel" THEN "r_sub_total"
                                ELSE "r_add_total"]
  /\ UNCHANGED <<reservation_count, reservations, unused_peaks_mb,
                 total_reserved_mb, reserved_count_mutex, alive, calls, env>>

\* main.c:1291  shared_data->total_reserved_mb -= old_value;
TotalAfterRelease(total, old_value) == total - old_value

\* main.c:1290-1293  the update of the total under its mutex, and the unlock.
SubTotal(t) ==
  /\ Running(t) /\ th[t].pc = "r_sub_total"
  /\ total_reserved_mb' = TotalAfterRelease(total_reserved_mb, th[t].old_value)
  /\ total_reserved_mb_mutex' = NoThread
  /\ th' = [th EXCEPT ![t].pc = "r_zero", ![t].touched = TRUE]
  /\ UNCHANGED <<reservation_count, reservations, unused_peaks_mb,
                 reserved_count_mutex, alive, calls, env>>

\* main.c:1294  res->reserved_mb = 0;
ZeroSlot(t) ==
  /\ Running(t) /\ th[t].pc = "r_zero"
  /\ reservations' = [reservations EXCEPT ![th[t].res].reserved_mb = 0]
  /\ th' = [th EXCEPT ![t].pc = "r_chk_pid", ![t].touched = TRUE]
  /\ UNCHANGED <<reservation_count, unused_peaks_mb, total_reserved_mb,
                 reserved_count_mutex, total_reserved_mb_mutex, alive, calls, env>>

\* main.c:1302  return (mb == 0 || (mb < 0 && old_value == (unsigned long)(-mb)))
ReleaseResult(mb, old_value) ==
  IF mb = 0 \/ (mb < 0 /\ old_value = -mb) THEN 1 ELSE 0

\* main.c:1296  if (res->pid == pid)       (the read of the slot's pid)
CheckPid(t) ==
  /\ Running(t) /\ th[t].pc = "r_chk_pid"
  /\ LET f == th[t] IN
       IF reservations[f.res].pid = f.pid
       THEN th' = [th EXCEPT ![t].pc = "r_clr_pid"]
       ELSE th' = [th EXCEPT ![t] =
                     Returned(f, ReleaseResult(f.mb, f.old_value), "released")]
  /\ UNCHANGED <<shared, alive, calls, env>>

\* The end of a release without the assignment res->pid = 0 of main.c:1297.
ClearPid_KeepsPid(t) ==
  /\ Running(t) /\ th[t].pc = "r_clr_pid"
  /\ th' = [th EXCEPT ![t] =
              Returned(th[t], ReleaseResult(th[t].mb, th[t].old_value),
                       "released")]
  /\ UNCHANGED <<shared, alive, calls, env>>

\* main.c:1297-1302  res->pid = 0;  return ...
ClearPid(t) ==
  /\ Running(t) /\ th[t].pc = "r_clr_pid"
  /\ reservations' = [reservations EXCEPT ![th[t].res].pid = 0]
  /\ th' = [th EXCEPT ![t] =
              Returned(th[t], ReleaseResult(th[t].mb, th[t].old_value),
                       "released")]
  /\ UNCHANGED <<reservation_count, unused_peaks_mb, total_reserved_mb,
                 reserved_count_mutex, total_reserved_mb_mutex, alive, calls, env>>

\* main.c:1306  res->reserved_mb = (unsigned long)mb;
WriteSlot(t) ==
  /\ Running(t) /\ th[t].pc = "r_write"
  /\ reservations' = [reservations EXCEPT ![th[t].res].reserved_mb = th[t].mb]
  /\ th' = [th EXCEPT ![t].pc = "r_lock_add", ![t].touched = TRUE]
  /\ UNCHANGED <<reservation_count, unused_peaks_mb, total_reserved_mb,
                 reserved_count_mutex, total_reserved_mb_mutex, alive, calls, env>>

\* A total that gains the whole new value, whatever the slot held before.
TotalAfterReserve_AddsAll(total, old_value, mb) == total + mb

\* main.c:1309-1317  the total after a positive value mb replaced old_value.
TotalAfterReserve(total, old_value, mb) ==
  IF ~ULt(mb, old_value)
  THEN total + (mb - old_value)
  ELSE IF ULt(total, old_value - mb) THEN 0 ELSE total - (old_value - mb)

\* main.c:1308-1324  the update of the total under its mutex, the unlock,
\* return 0.
AddTotal(t) ==
  /\ Running(t) /\ th[t].pc = "r_add_total"
  /\ total_reserved_mb' =
       TotalAfterReserve(total_reserved_mb, th[t].old_value, th[t].mb)
  /\ total_reserved_mb_mutex' = NoThread
  /\ th' = [th EXCEPT ![t] = Returned(th[t], 0, "reserved")]
  /\ UNCHANGED <<reservation_count, reservations, unused_peaks_mb,
                 reserved_count_mutex, alive, calls, env>>

\* One step of the reserve_memory_mb call in progress in thread t.
ReserveStep(t) ==
  \/ ReadCount(t) \/ Lookup(t) \/ LockCount(t) \/ ScanEmpty(t)
  \/ SetPid(t) \/ SetZero(t) \/ SetCount(t) \/ ReadOld(t)
  \/ LockTotal(t) \/ SubTotal(t) \/ ZeroSlot(t) \/ CheckPid(t) \/ ClearPid(t)
  \/ WriteSlot(t) \/ AddTotal(t)


\* The steps of a reserve_memory_mb call with a negative amount (a release
\* under a pid): main.c:1306-1324 are not reached.
ReleaseStep(t) ==
  \/ ReadCount(t) \/ Lookup(t) \/ LockCount(t) \/ ScanEmpty(t)
  \/ SetPid(t) \/ SetZero(t) \/ SetCount(t) \/ ReadOld(t)
  \/ LockTotal(t) \/ SubTotal(t) \/ ZeroSlot(t) \/ CheckPid(t) \/ ClearPid(t)

\* ------------------------------------------------------------ classifier

\* The characters of a command line that the classifier tells apart, by
\* their codes: space, double quote, '.', '/', 'a' (any other character),
\* 'c' and 'p'.  A string is a sequence of them; 0 is the terminating NUL.
Chars == {32, 34, 46, 47, 97, 99, 112}

\* The strings of at most n characters.
Strings(n) == UNION {[1 .. k -> Chars] : k \in 0 .. n}

\* text[i], the NUL past the end included.
At(text, i) == IF i >= 1 /\ i <= Len(text) THEN text[i] ELSE 0

\* strncmp (ptr, lit, strlen (lit)) == 0  with ptr at position p of text.
StartsAt(text, p, lit) == \A k \in 1 .. Len(lit) : At(text, p + k - 1) = lit[k]

\* NULL: no filename found.
NoFile == <<>>

\* part_003:291-296  candidate_end for ptr at position p, or 0.
CandidateEnd(text, p) ==
  IF StartsAt(text, p, <<46, 99, 112, 112>>) THEN p + 3
  ELSE IF StartsAt(text, p, <<46, 99, 99>>) THEN p + 2
  ELSE IF StartsAt(text, p, <<46, 99>>) /\ At(text, p + 2) \in {32, 0}
       THEN p + 1
  ELSE 0

RECURSIVE BackTo_Late(_, _, _)
\* A backward search that ends one character after the start it found.
BackTo_Late(text, p, stops) ==
  IF p > 1 /\ text[p - 1] \notin stops THEN BackTo_Late(text, p - 1, stops)
  ELSE p + 1

RECURSIVE BackTo(_, _, _)
\* part_003:300-302 and 320-321  start moves back from position p until the
\* character before it is one of stops, or the text begins.
BackTo(text, p, stops) ==
  IF p > 1 /\ text[p - 1] \notin stops THEN BackTo(text, p - 1, stops)
  ELSE p

\* part_003:304-316  the candidate found at p is kept: its token, from the
\* previous space to candidate_end, has a '/'.
Kept(text, p) ==
  /\ CandidateEnd(text, p) > 0
  /\ \E i \in BackTo(text, p, {32}) .. CandidateEnd(text, p) :
       At(text, i) = 47

RECURSIVE StripDotDot(_)
\* part_003:329-331  while (strncmp (strip_ptr, "../", 3) == 0) strip_ptr += 3;
StripDotDot(name) ==
  IF StartsAt(name, 1, <<46, 46, 47>>)
  THEN StripDotDot(SubSeq(name, 4, Len(name)))
  ELSE name

\* part_003:283-336  extract_filename_common: the last kept candidate, from
\* the start of its path (after a space or a double quote, part_003:320) to
\* candidate_end, without leading "../".
extract_filename_common(text) ==
  LET kept == {p \in 1 .. Len(text) : Kept(text, p)}
  IN IF kept = {} THEN NoFile
     ELSE LET last == CHOOSE p \in kept : \A r \in kept : r <= p
              end == CandidateEnd(text, last)
              start == BackTo(text, end, {32, 34})
          IN StripDotDot(SubSeq(text, start, end))

\* No classification has been asked for.
NoText == [pc |-> "none", text |-> <<>>, found |-> NoFile, again |-> NoFile]

\* part_003:417-443 and 369-412  a command line is classified.
Classify ==
  /\ cls.pc = "text"
  /\ cls' = [cls EXCEPT !.pc = "classified",
                        !.found = extract_filename_common(cls.text)]
  /\ UNCHANGED <<shared, th, alive, calls, gateVars, profVars, monVars, ps,
                 host>>

\* The filename returned is classified in turn, as a command line of one
\* word.
Reclassify ==
  /\ cls.pc = "classified" /\ cls.found # NoFile
  /\ cls' = [cls EXCEPT !.pc = "reclassified",
                        !.again = extract_filename_common(cls.found)]
  /\ UNCHANGED <<shared, th, alive, calls, gateVars, profVars, monVars, ps,
                 host>>

\* ------------------------------------------------------------ history

\* The history before the first tick.  It is kept (on) in the specifications
\* whose properties compare ticks.  No tick has run, so none ran on an
\* unchanged system.  orphans are the processes that had left the tree of
\* the top-level make, alive, when the tick in progress started.
NoHistory ==
  [on |-> FALSE, os_changed |-> TRUE, calm_prev |-> FALSE, start |-> <<>>,
   raised |-> FALSE, untracked |-> FALSE, untracked_prev |-> FALSE,
   ticks |-> 0, quiet |-> FALSE, same |-> TRUE, same_table |-> TRUE,
   exact |-> FALSE, orphans |-> {},
   last_total_jobs |-> 0]

\* The history becomes h.
Note(h) == hist' = IF hist.on THEN h ELSE hist

\* What /proc shows of the processes of the build has changed.
OsChange == Note([hist EXCEPT !.os_changed = TRUE])

\* ------------------------------------------------------------ callers

\* The pids a thread passes to reserve_memory_mb, and the amounts.  A make
\* process reserves and releases under its own pid (main.c:1221); the
\* monitor thread releases, with a negative amount, under the pid of a
\* descendant it has just discovered (main.c:1676): a job or a sub-make.
CallArgs(t) ==
  IF t = "mon"
  THEN {<<p, -k>> : p \in {PidOfProc("submake")} \cup JobPids, k \in 1 .. MaxMb}
  ELSE {<<getpid(t), m>> : m \in (-MaxMb) .. MaxMb}

\* A thread calls reserve_memory_mb (pid, mb, filepath).
Call(t) ==
  /\ Running(t) /\ th[t].pc = "idle"
  /\ calls < MaxCalls
  /\ \E a \in CallArgs(t) : th' = Enter(t, a[1], a[2], "raw")
  /\ calls' = calls + 1
  /\ UNCHANGED <<shared, alive, env>>

\* The caller goes on after the call has returned.
Return(t) ==
  /\ Running(t) /\ th[t].pc = "r_done" /\ th[t].from = "raw"
  /\ th' = [th EXCEPT ![t] = IdleFrame]
  /\ UNCHANGED <<shared, alive, calls, env>>

\* A make process is killed (SIGKILL, the OOM killer) between two steps of
\* its threads; its threads take no further step.
Die(p) ==
  /\ alive[p]
  /\ alive' = [alive EXCEPT ![p] = FALSE]
  /\ OsChange
  /\ UNCHANGED <<shared, th, calls, gateVars, profVars, procs, descendants,
                 compile_count, mon, sideVars>>


\* ------------------------------------------------------------ host memory probe

\* What /proc/meminfo holds: unreadable, or MemTotal and MemAvailable in kB
\* (avail_kb stays 0 when the file has no MemAvailable line).
MeminfoStates ==
  {[readable |-> FALSE, total_kb |-> 0, avail_kb |-> 0]}
  \cup {[readable |-> TRUE, total_kb |-> MaxFreeMb * 1024, avail_kb |-> a] :
          a \in {0, 512} \cup {k * 1024 : k \in 1 .. MaxFreeMb}}

\* get_memory_stats without the initialisation *percent = 0 of main.c:1190,
\* for a caller whose variable held 100.
get_memory_stats_NoInit(m) ==
  IF ~m.readable THEN <<0, 100>>
  ELSE IF m.avail_kb > 0
       THEN <<m.avail_kb \div 1024,
              IF m.total_kb > 0
              THEN 100 - ((m.avail_kb * 100) \div m.total_kb) ELSE 100>>
       ELSE <<0, 100>>

\* main.c:1181-1214  get_memory_stats (&percent): the pair <<return value,
\* *percent>>.
get_memory_stats(m) ==
  IF ~m.readable THEN <<0, 0>>
  ELSE IF m.avail_kb > 0
       THEN <<m.avail_kb \div 1024,
              IF m.total_kb > 0
              THEN 100 - ((m.avail_kb * 100) \div m.total_kb) ELSE 0>>
       ELSE <<0, 0>>

\* The probe could not determine free memory: it reports 0 MiB free and 0
\* percent used (main.c:1190, 1194, 1213).
ProbeUnknown(stats) == stats[1] = 0 /\ stats[2] = 0

\* ------------------------------------------------------------ admission gate

ProfileIdx == 0 .. (MaxProfiles - 1)

\* The hint of a gate call: the profile index its source path resolves to, or
\* NULL when the path is not classifiable or has no profile.
Hints == ProfileIdx \cup {NULL}

\* Stored peak of the hint's profile; 0 when there is none.
peak_from_profile(h) == IF h = NULL THEN 0 ELSE memory_profiles[h]

\* saturating_sub (free, imminent)
EffectiveFree(free, imminent) == IF imminent > free THEN 0 ELSE free - imminent

\* The decision of the gate: go when the probe is unknown, when nothing is
\* required, or when the requirement fits the effective free memory.
GateDecision(required, stats, imminent) ==
  IF ProbeUnknown(stats) \/ required = 0
     \/ required <= EffectiveFree(stats[1], imminent)
  THEN "go" ELSE "wait"

\* get_imminent_memory_mb without the unused peaks.
get_imminent_memory_mb_ReservedOnly(reserved_mb, unused_mb) == reserved_mb

\* main.c:1176  return reserved_mb + unused_peaks_mb;
get_imminent_memory_mb(reserved_mb, unused_mb) == reserved_mb + unused_mb

\* Frame of a thread that is not inside may_spawn.
GateIdle ==
  [pc |-> "idle", hint |-> NULL, required |-> 0, stats |-> <<0, 0>>,
   reserved_mb |-> 0, unused_peaks_mb |-> 0, decision |-> "none",
   reserve_path |-> "none", wrote |-> FALSE, recorded |-> FALSE]

\* The threads that run recipes and so call the gate.
GateCallers == {"main", "sub"}

\* may_spawn (hint), steps 1 and 2: the requirement from the profile store and
\* the host probe.
GateProbe(t) ==
  /\ Running(t) /\ th[t].pc = "idle" /\ gate[t].pc = "idle"
  /\ calls < MaxCalls
  /\ \E h \in Hints :
       gate' = [gate EXCEPT ![t] =
                  [GateIdle EXCEPT !.pc = "g_reserved", !.hint = h,
                                   !.required = peak_from_profile(h),
                                   !.stats = get_memory_stats(meminfo)]]
  /\ calls' = calls + 1
  /\ UNCHANGED <<shared, th, alive, meminfo, profVars, monVars, sideVars>>

\* main.c:1169  reserved_mb = shared_data->total_reserved_mb;
GateReadReserved(t) ==
  /\ Running(t) /\ gate[t].pc = "g_reserved"
  /\ gate' = [gate EXCEPT ![t].reserved_mb = total_reserved_mb,
                          ![t].pc = "g_unused"]
  /\ UNCHANGED <<shared, th, alive, calls, meminfo, profVars, monVars, sideVars>>

\* main.c:1170-1174  unused_peaks_mb = shared_data->unused_peaks_mb;  return
\* reserved_mb + unused_peaks_mb;  and steps 4 to 6 of the gate: on go with a
\* requirement the gate calls reserve_memory_mb (getpid (), required), on
\* wait and on go without a requirement it returns.
GateDecide(t) ==
  /\ Running(t) /\ gate[t].pc = "g_unused"
  /\ LET g == gate[t]
         imminent == get_imminent_memory_mb(g.reserved_mb, unused_peaks_mb)
         d == GateDecision(g.required, g.stats, imminent)
         reserves == d = "go" /\ g.required > 0 /\ ~ProbeUnknown(g.stats)
     IN /\ gate' = [gate EXCEPT ![t].unused_peaks_mb = unused_peaks_mb,
                                ![t].decision = d,
                                ![t].pc = IF reserves THEN "g_reserve"
                                          ELSE "g_done"]
        /\ th' = IF reserves THEN Enter(t, getpid(t), g.required, "gate")
                 ELSE th
  /\ UNCHANGED <<shared, alive, calls, meminfo, profVars, monVars, sideVars>>

\* The reservation recorded for pid p is exactly mb.
Recorded(p, mb) ==
  \E s \in Slots : reservations[s].pid = p /\ reservations[s].reserved_mb = mb

\* The gate's reserve_memory_mb call has returned; may_spawn returns go.
GateReturn(t) ==
  /\ Running(t) /\ gate[t].pc = "g_reserve"
  /\ th[t].pc = "r_done" /\ th[t].from = "gate"
  /\ gate' = [gate EXCEPT ![t].pc = "g_done",
                          ![t].reserve_path = th[t].path,
                          ![t].wrote = th[t].touched,
                          ![t].recorded = Recorded(getpid(t), gate[t].required)]
  /\ th' = [th EXCEPT ![t] = IdleFrame]
  /\ UNCHANGED <<shared, alive, calls, meminfo, profVars, monVars, sideVars>>

\* The caller acts on the decision (spawns, or retries later).
GateLeave(t) ==
  /\ Running(t) /\ gate[t].pc = "g_done"
  /\ gate' = [gate EXCEPT ![t] = GateIdle]
  /\ UNCHANGED <<shared, th, alive, calls, meminfo, profVars, monVars, sideVars>>

\* main.c:1841  shared_data->unused_peaks_mb = total_unused_peaks_mb;  the
\* monitor thread publishes the sum it computed in this tick.
Publish ==
  /\ Running("mon") /\ th["mon"].pc = "idle"
  /\ calls < MaxCalls
  /\ \E u \in 0 .. MaxMb :
       /\ u # unused_peaks_mb
       /\ unused_peaks_mb' = u
  /\ calls' = calls + 1
  /\ UNCHANGED <<reservation_count, reservations, total_reserved_mb,
                 reserved_count_mutex, total_reserved_mb_mutex, th, alive,
                 env>>

\* The recipe runner's post-exit hook releases the caller's reservation:
\* reserve_memory_mb (getpid (), mb) with mb <= 0.
PostExitRelease(t) ==
  /\ Running(t) /\ th[t].pc = "idle" /\ gate[t].pc = "idle"
  /\ calls < MaxCalls
  /\ \E k \in 0 .. MaxMb : th' = Enter(t, getpid(t), -k, "raw")
  /\ calls' = calls + 1
  /\ UNCHANGED <<shared, alive, env>>


\* ------------------------------------------------------------ profile store

\* unsigned int memory_profile_count of the top-level make: the entries in
\* use.
memory_profile_count == Len(ps["top"].filenames)

\* The last step of the profile store was not an update.
NoRecord ==
  [idx |-> NULL, memory_mb |-> 0, final |-> FALSE, prev_peak_mb |-> 0,
   dirty_before |-> 0, profiles_before |-> <<>>, valid |-> FALSE]

\* main.c:947  the index names no entry.
InvalidIndex(idx) == idx < 0 \/ idx >= memory_profile_count

\* The early return with < in place of <=.
RecordReturnsEarly_Strict(memory_mb, prev_peak_mb, final) ==
  memory_mb < prev_peak_mb /\ ~final

\* main.c:956  if (memory_mb <= prev_peak_mb && !final) return;
RecordReturnsEarly(memory_mb, prev_peak_mb, final) ==
  memory_mb <= prev_peak_mb /\ ~final

\* The reduction by half of the difference.
ReducedPeak_Half(prev_peak_mb, memory_mb) ==
  prev_peak_mb - ((prev_peak_mb - memory_mb) \div 2)

\* main.c:963  prev_peak_mb - (prev_peak_mb - memory_mb) / 3
ReducedPeak(prev_peak_mb, memory_mb) ==
  prev_peak_mb - ((prev_peak_mb - memory_mb) \div 3)

\* main.c:962-974  the value stored by an update that did not return early.
StoredPeak(prev_peak_mb, memory_mb, final) ==
  IF final /\ memory_mb < prev_peak_mb
  THEN ReducedPeak(prev_peak_mb, memory_mb) ELSE memory_mb

\* main.c:940-976  record_file_memory_usage_by_index (profile_idx, memory_mb,
\* final) on a store that holds the peaks profiles in count entries.
RecordIn(profiles, count, idx, memory_mb, final) ==
  LET invalid == idx < 0 \/ idx >= count IN
  /\ last_record' =
       [idx |-> idx, memory_mb |-> memory_mb, final |-> final,
        prev_peak_mb |-> IF invalid THEN 0 ELSE profiles[idx],
        dirty_before |-> memory_profiles_dirty,
        profiles_before |-> profiles, valid |-> ~invalid]
  /\ IF invalid
     THEN memory_profiles' = profiles /\ UNCHANGED memory_profiles_dirty
     ELSE LET prev_peak_mb == profiles[idx] IN
            IF RecordReturnsEarly(memory_mb, prev_peak_mb, final)
            THEN memory_profiles' = profiles /\ UNCHANGED memory_profiles_dirty
            ELSE /\ memory_profiles' =
                      [profiles EXCEPT
                         ![idx] = StoredPeak(prev_peak_mb, memory_mb, final)]
                 /\ memory_profiles_dirty' = 1

\* main.c:940-976  record_file_memory_usage_by_index (profile_idx, memory_mb,
\* final), called by the monitor thread.
record_file_memory_usage_by_index(idx, memory_mb, final) ==
  RecordIn(memory_profiles, memory_profile_count, idx, memory_mb, final)

\* The monitor thread records a sample (final = 0) or the last peak of a
\* descendant that has exited (final = 1).
Record ==
  /\ \E idx \in (-1) .. MaxProfiles, x \in 0 .. MaxPeak, final \in BOOLEAN :
       record_file_memory_usage_by_index(idx, x, final)
  /\ UNCHANGED <<shared, th, alive, calls, gateVars, monVars, sideVars>>

\* main.c:1864-1872  the monitor thread saves the profiles and clears the
\* dirty flag.
Flush ==
  /\ memory_profiles_dirty = 1
  /\ memory_profiles_dirty' = 0
  /\ last_record' = NoRecord
  /\ UNCHANGED <<shared, th, alive, calls, gateVars, memory_profiles, monVars,
                 sideVars>>

\* ------------------------------------------------------------ life cycle of a make

\* main.c: makelevel of the top-level make and of a sub-make.
makelevel(p) == IF p = "top" THEN 0 ELSE 1

\* A guard that lets sub-makes through.
InSubMake_Never(level) == FALSE

\* main.c:1055, 1103, 1907  if (makelevel > 0) return;
InSubMake(level) == level > 0

\* The globals and statics of a make right after it has parsed its options,
\* memory_aware_flag set: nothing mapped, no monitor.  stop is the frame of
\* the main thread inside stop_memory_monitor and die its position inside
\* die(); filenames are memory_profiles[i].filename of the entries in use,
\* a source path being the number it has among the paths of the build;
\* called and last are history, the functions of this section the main
\* thread has called.  env is the value of MAKE_MEMORY_AWARE in the
\* environment of the make ("NULL" when getenv returns NULL), switch what the
\* options left in memory_aware_flag, and main the position of the main
\* thread in main ().
NoMake ==
  [memory_aware_flag |-> 1, env |-> "NULL", switch |-> 1, main |-> "any",
   shared_data |-> "NULL", shared_memory_fd |-> -1, already_started |-> 0,
   monitor_thread_running |-> 0, monitor_stderr_fd |-> -1,
   status_line_shown |-> 0, disable_memory_display |-> 1,
   thread |-> "none", dying |-> 0, die |-> "idle", filenames |-> <<>>,
   stop |-> [pc |-> "idle", immediate |-> 0], called |-> {}, last |-> ""]

\* A build under way with --nomem: both makes have the region mapped and the
\* monitor thread of the top-level make runs with its private descriptor.
\* The store of the top-level make has an entry for every path of the build,
\* path i at index i.
RunningBuild ==
  [p \in Procs |->
     IF p = "top"
     THEN [NoMake EXCEPT !.shared_data = "mapped", !.shared_memory_fd = 3,
                         !.already_started = 1, !.monitor_thread_running = 1,
                         !.monitor_stderr_fd = 4, !.thread = "running",
                         !.filenames = [i \in 1 .. MaxProfiles |-> i - 1]]
     ELSE [NoMake EXCEPT !.shared_data = "mapped", !.shared_memory_fd = 3]]

\* main.c:1787, 1865  the clock read by time (NULL) at the end of the last
\* tick and static time_t last_save_time; the clock is followed (on) in the
\* specification of the flushes only.  The rest is history: the time of the
\* earliest update of the store that no save has written, of the earliest
\* update since the dirty flag was last cleared (-1 for none), two saves
\* closer than SaveGap, an update left unwritten, and the flag left set,
\* longer than SaveGap and a tick, a save that could not write the file.
NoClock ==
  [on |-> FALSE, now |-> SaveGap, last_save_time |-> 0, unwritten |-> -1,
   dirty |-> -1, close |-> FALSE, overdue |-> FALSE, stale |-> FALSE,
   failed |-> FALSE]

\* Saves that do not wait.
SaveDue_Always(current_time, last_save_time) == TRUE

\* main.c:1866  if (current_time - last_save_time >= 10)
SaveDue(current_time, last_save_time) ==
  current_time - last_save_time >= SaveGap

\* The threads of the top-level make that save the profiles: the main thread
\* in die() and the monitor thread in its loop.
Savers == {"main", "mon"}

\* The directory of the build before any save: no .make_memory_cache.tmp (tmp)
\* and no .make_memory_cache (live); a name holds the number of its file, 0
\* for none.  data is what each file holds, a sequence of entries, each the
\* number of the save_memory_profiles run that wrote it, 0 where nothing was
\* written; made and runs count the files and the runs, len is the number
\* of entries a run writes, f the position of each thread in its run.
NoFiles ==
  [tmp |-> 0, live |-> 0, data |-> [i \in 1 .. MaxCalls |-> <<>>],
   made |-> 0, runs |-> 0, len |-> [r \in 1 .. MaxCalls |-> 0],
   f |-> [t \in Savers |-> [pc |-> "idle", file |-> 0, off |-> 0, run |-> 0]]]

\* The host: /make_memory_shared exists, stderr is open, nobody has written
\* .make_memory_cache.  The other fields are history: stop_memory_monitor
\* calls made, the atexit cleanup done, the run flag cleared, the monitor
\* stopped (a stop call returned or the renderer cleared the flag), a stop
\* call returned after joining, a write to monitor_stderr_fd issued after
\* either, stop_memory_monitor(0) returned at once with the thread running,
\* the loop went on with the flag clear, die() invoked the flush or the cleanup,
\* die() tore a mapped region down, the monitor thread went through
\* shared_data after munmap.  cache is what .make_memory_cache holds of
\* the store, <<>> before any save, and whether every save so far could
\* write; it is followed (on) in the specification of the exit only.  bar
\* is one call of display_memory_status that draws the bar: its arguments,
\* the zone widths it computed and whether it divided by zero.
QuietHost ==
  [linked |-> TRUE, pipe_ok |-> TRUE, cache_writers |-> {}, stops |-> 0,
   atexit |-> FALSE, cleared |-> FALSE, stopped |-> FALSE, joined |-> FALSE,
   late |-> FALSE, late_joined |-> FALSE, early0 |-> FALSE,
   woke_clear |-> FALSE, die_invoked |-> {}, torn |-> FALSE,
   after_unmap |-> FALSE,
   cache |-> [on |-> FALSE, image |-> <<>>, ok |-> TRUE],
   bar |-> [pc |-> "none", mem_percent |-> 0, free_mb |-> 0,
            make_usage_mb |-> 0, imminent_mb |-> 0, zones |-> <<>>,
            div0 |-> FALSE],
   clock |-> NoClock, files |-> NoFiles]

\* main.c:982-1047  init_shared_memory in process p, from the state s of the
\* process and the host: shm_open fails, or the name is created if absent and
\* the region mapped.
init_shared_memory(p, s) ==
  {[s EXCEPT !.me.shared_memory_fd = -1],
   [s EXCEPT !.me.shared_memory_fd = 3, !.me.shared_data = "mapped",
             !.host.linked = TRUE]}

\* main.c:1096-1140  save_memory_profiles: nothing in a sub-make; else the
\* cache file is replaced unless the temporary file cannot be opened.
save_memory_profiles(p, s) ==
  IF InSubMake(makelevel(p)) THEN {s}
  ELSE {s, [s EXCEPT !.host.cache_writers = @ \cup {p}]}

\* main.c:1050-1093  cleanup_shared_memory: nothing in a sub-make; else
\* unmap, close the descriptor and set it to -1, and then unlink the name if
\* the descriptor is not -1.
cleanup_shared_memory(p, s) ==
  IF InSubMake(makelevel(p)) THEN {s}
  ELSE LET unmapped == [s EXCEPT !.me.shared_data = "NULL"]
           closed == [unmapped EXCEPT !.me.shared_memory_fd = -1]
       IN  {IF closed.me.shared_memory_fd # -1
            THEN [closed EXCEPT !.host.linked = FALSE]
            ELSE closed}

\* main.c:1899-1935  start_memory_monitor: nothing in a sub-make and nothing
\* the second time; else the run flag is set and the thread created, which
\* dups stderr before its loop (main.c:1771).
start_memory_monitor(p, s) ==
  IF InSubMake(makelevel(p)) \/ s.me.already_started = 1 THEN {s}
  ELSE {[s EXCEPT !.me.already_started = 1, !.me.monitor_thread_running = 1,
                  !.me.thread = "running", !.me.monitor_stderr_fd = 4]}

\* main.c:5201-5223  die: the first call flushes the profiles and cleans the
\* region up at makelevel 0, and the process exits.
die(p, s) ==
  IF s.me.dying = 1 THEN {s}
  ELSE LET d == [s EXCEPT !.me.dying = 1] IN
       IF makelevel(p) = 0
       THEN LET t == [d EXCEPT !.host.die_invoked = @ \cup {p},
                               !.host.torn = d.me.shared_data = "mapped"]
            IN  UNION {cleanup_shared_memory(p, x) :
                         x \in save_memory_profiles(p, t)}
       ELSE {d}

\* The main thread of make p calls one of the functions above; the region is
\* initialised where the code does it (main.c:1162, 1234, 2998), and the
\* top-level make zeroes it (main.c:1020-1024): memset clears the whole
\* struct shared_memory_data, the two mutexes at its end (main.c:874-875)
\* included, and zero bytes are an unlocked mutex; a region just created has
\* them initialised (main.c:1026-1035).
MakeCall(p) ==
  /\ alive[p] /\ ps[p].stop.pc = "idle"
  /\ LET s == [me |-> ps[p], host |-> host]
         Done(fn, out) ==
           /\ ps' = [ps EXCEPT ![p] = [out.me EXCEPT !.called = @ \cup {fn},
                                                !.last = fn]]
           /\ host' = out.host
     IN  \/ /\ ps[p].shared_data = "NULL"
            /\ \E out \in init_shared_memory(p, s) :
                 /\ Done("init", out)
                 /\ IF makelevel(p) = 0 /\ out.me.shared_data = "mapped"
                    THEN /\ reservation_count' = 0
                         /\ reservations' =
                              [i \in Slots |-> [pid |-> 0, reserved_mb |-> 0]]
                         /\ unused_peaks_mb' = 0
                         /\ total_reserved_mb' = 0
                         /\ reserved_count_mutex' = NoThread
                         /\ total_reserved_mb_mutex' = NoThread
                    ELSE UNCHANGED shared
            /\ UNCHANGED alive
         \/ /\ \E out \in save_memory_profiles(p, s) : Done("save", out)
            /\ UNCHANGED <<shared, alive>>
         \/ /\ \E out \in cleanup_shared_memory(p, s) : Done("cleanup", out)
            /\ UNCHANGED <<shared, alive>>
         \/ /\ \E out \in start_memory_monitor(p, s) : Done("start", out)
            /\ UNCHANGED <<shared, alive>>
         \/ /\ \E out \in die(p, s) : Done("die", out)
            /\ alive' = [alive EXCEPT ![p] = FALSE]
            /\ UNCHANGED shared
  /\ UNCHANGED <<th, calls, gateVars, profVars, monVars, cls>>

\* The values of MAKE_MEMORY_AWARE in the environment, "NULL" for a variable
\* that is not set.
EnvValues == {"NULL", "0", "no", "false", "1", "", "FALSE"}

\* main.c:310  strcmp (env, "0") != 0 && strcmp (env, "no") != 0
\* && strcmp (env, "false") != 0
EnvSaysOn(value) == value \notin {"0", "no", "false"}

\* main.c:300-314  init_memory_monitoring_env: memory_aware_flag after it.
init_memory_monitoring_env(flag, value) ==
  IF flag = -1
  THEN IF value # "NULL" THEN (IF EnvSaysOn(value) THEN 1 ELSE 0) ELSE 1
  ELSE flag

\* The main thread of make p goes through main () and die (): with the
\* options decoded (memory_aware_flag is 1 after --memory-aware, 0 after
\* --no-memory-aware and still -1, main.c:279, without either) it sets the
\* region up if (memory_aware_flag) (main.c:2998), reads the environment
\* (main.c:3169), starts the monitor if (memory_aware_flag && makelevel == 0)
\* (main.c:3172), and after the build calls die (), which at makelevel 0
\* saves the profiles and cleans the region up whatever the flag
\* (main.c:5219-5222).
MainStep(p) ==
  /\ alive[p]
  /\ LET me == ps[p]
         s == [me |-> me, host |-> host]
     IN  \/ /\ me.main = "decoded"
            /\ \E out \in IF me.memory_aware_flag # 0
                           THEN init_shared_memory(p, s) ELSE {s} :
                 /\ ps' = [ps EXCEPT ![p] = [out.me EXCEPT !.main = "setup"]]
                 /\ host' = out.host
                 /\ IF makelevel(p) = 0 /\ out.me.shared_data = "mapped"
                    THEN /\ reservation_count' = 0
                         /\ reservations' =
                              [i \in Slots |-> [pid |-> 0, reserved_mb |-> 0]]
                         /\ unused_peaks_mb' = 0
                         /\ total_reserved_mb' = 0
                         /\ reserved_count_mutex' = NoThread
                         /\ total_reserved_mb_mutex' = NoThread
                    ELSE UNCHANGED shared
            /\ UNCHANGED alive
         \/ /\ me.main = "setup"
            /\ LET flag == init_memory_monitoring_env(me.memory_aware_flag,
                                                      me.env)
                   t == [s EXCEPT !.me.memory_aware_flag = flag]
               IN \E out \in IF flag # 0 /\ makelevel(p) = 0
                              THEN start_memory_monitor(p, t) ELSE {t} :
                    /\ ps' = [ps EXCEPT ![p] = [out.me EXCEPT !.main = "build"]]
                    /\ host' = out.host
            /\ UNCHANGED <<shared, alive>>
         \/ /\ me.main = "build"
            /\ \E out \in die(p, s) :
                 /\ ps' = [ps EXCEPT ![p] = [out.me EXCEPT !.main = "exit"]]
                 /\ host' = out.host
            /\ alive' = [alive EXCEPT ![p] = FALSE]
            /\ UNCHANGED shared
  /\ UNCHANGED <<th, calls, gateVars, profVars, monVars, cls>>

\* ------------------------------------------------------------ saving the profiles

\* main.c:1096-1149  a step of save_memory_profiles in thread t of the
\* top-level make: fopen (".make_memory_cache.tmp", "w") creates the file or
\* truncates the one of that name; each entry with a peak is written at the
\* position of the stream; fclose; rename makes the file that has the
\* temporary name live, and fails when the name is gone.  die() saves once.
SaveStep(t) ==
  LET fs == host.files
      me == fs.f[t]
      Put(d, off, r) ==
        [i \in 1 .. (IF off + 1 > Len(d) THEN off + 1 ELSE Len(d)) |->
           IF i = off + 1 THEN r ELSE IF i <= Len(d) THEN d[i] ELSE 0]
  IN
  /\ alive["top"]
  /\ \/ /\ me.pc = "idle" /\ fs.runs < MaxCalls
        /\ t = "main" => me.run = 0
        /\ \E n \in 1 .. MaxProfiles :
             LET r == fs.runs + 1
                 file == IF fs.tmp = 0 THEN fs.made + 1 ELSE fs.tmp
             IN host' = [host EXCEPT
                           !.files.runs = r,
                           !.files.len[r] = n,
                           !.files.made = IF fs.tmp = 0 THEN @ + 1 ELSE @,
                           !.files.tmp = file,
                           !.files.data[file] = <<>>,
                           !.files.f[t] = [pc |-> "write", file |-> file,
                                           off |-> 0, run |-> r]]
     \/ /\ me.pc = "write" /\ me.off < fs.len[me.run]
        /\ host' = [host EXCEPT
                      !.files.data[me.file] = Put(@, me.off, me.run),
                      !.files.f[t].off = @ + 1]
     \/ /\ me.pc = "write" /\ me.off = fs.len[me.run]
        /\ host' = [host EXCEPT !.files.f[t].pc = "rename"]
     \/ /\ me.pc = "rename"
        /\ host' = [host EXCEPT
                      !.files.live = IF fs.tmp # 0 THEN fs.tmp ELSE @,
                      !.files.tmp = 0,
                      !.files.f[t].pc = "idle"]
  /\ UNCHANGED <<shared, th, alive, calls, gateVars, profVars, monVars, cls,
                 ps>>

\* ------------------------------------------------------------ stopping the monitor

\* main.c:1491, 1947  a write(2) is issued to descriptor fd, the monitor's
\* private descriptor unless fd is -1; the history notes a write that comes
\* after the monitor was stopped.
WriteTo(h, fd) ==
  [h EXCEPT !.late = @ \/ (h.stopped /\ fd >= 0),
            !.late_joined = @ \/ (h.joined /\ fd >= 0)]

\* main.c:1940-1977  reset_terminal_state tries monitor_stderr_fd first if it
\* is not negative, and /dev/tty and stderr after it.
reset_terminal_state(me, h) == WriteTo(h, me.monitor_stderr_fd)

\* main.c:1346-1503  display_memory_status at the end of a tick, from the
\* state s of the process and the host: nothing when the display is disabled
\* or 300 ms have not passed; else the status line is written, and a write
\* that fails with EPIPE or EBADF resets the terminal and clears the run flag.
display_memory_status(s) ==
  LET sent == [s EXCEPT !.host = WriteTo(s.host, s.me.monitor_stderr_fd)]
  IN  IF s.me.disable_memory_display = 1 THEN {s}
      ELSE {s,
            IF s.host.pipe_ok
            THEN [sent EXCEPT !.me.status_line_shown = 1]
            ELSE [sent EXCEPT
                    !.me.status_line_shown = 0,
                    !.me.monitor_thread_running = 0,
                    !.host = [reset_terminal_state(s.me, sent.host) EXCEPT
                                !.cleared = TRUE, !.stopped = TRUE]]}

\* main.c:1407  total_mb = free_mb / (100 - mem_percent) * 100;  for a
\* divisor that is not 0.
BarTotal(mem_percent, free_mb) == (free_mb \div (100 - mem_percent)) * 100

\* main.c:1411-1420  the widths of the four zones of the bar of 20 columns,
\* make_filled, other_filled, imminent_filled and free_filled, for a
\* total_mb that is not 0.
BarZones(mem_percent, make_usage_mb, imminent_mb, total_mb) ==
  LET bar_len == 20
      make_filled == (make_usage_mb * bar_len) \div total_mb
      imminent_filled == (imminent_mb * bar_len) \div total_mb
      total_used_filled == (mem_percent * bar_len) \div 100
      other == total_used_filled - make_filled
      other_filled == IF other < 0 THEN 0 ELSE other
      free == bar_len - make_filled - other_filled - imminent_filled
      free_filled == IF free < 0 THEN 0 ELSE free
  IN  <<make_filled, other_filled, imminent_filled, free_filled>>

\* main.c:1406-1420  display_memory_status, with the display enabled and
\* 300 ms passed, computes the bar from its arguments.  An integer division
\* by zero is not defined: the process is killed (SIGFPE), or the quotient
\* is taken as 0 where the machine does not trap.
DrawBar ==
  LET b == host.bar
      d == 100 - b.mem_percent
      total_mb == IF d = 0 THEN 0 ELSE BarTotal(b.mem_percent, b.free_mb)
  IN
  /\ alive["top"] /\ b.pc = "called"
  /\ IF total_mb = 0
     THEN \E killed \in BOOLEAN :
            /\ alive' = IF killed THEN [alive EXCEPT !["top"] = FALSE]
                        ELSE alive
            /\ host' = [host EXCEPT
                          !.bar.pc = IF killed THEN "killed" ELSE "drawn",
                          !.bar.div0 = TRUE,
                          !.bar.zones =
                            IF killed THEN <<>>
                            ELSE LET used == (b.mem_percent * 20) \div 100
                                 IN  <<0, used, 0, 20 - used>>]
     ELSE /\ host' = [host EXCEPT
                        !.bar.pc = "drawn",
                        !.bar.zones = BarZones(b.mem_percent, b.make_usage_mb,
                                               b.imminent_mb, total_mb)]
          /\ UNCHANGED alive
  /\ UNCHANGED <<shared, th, calls, gateVars, profVars, monVars, cls, ps>>

\* A loop that never looks at the run flag.
LoopContinues_Always(flag) == TRUE

\* main.c:1779  while (monitor_thread_running)
LoopContinues(flag) == flag # 0

\* A join that does not wait.
Joined_AtOnce(thread) == TRUE

\* main.c:2030-2031  pthread_join (memory_monitor_thread) returns.
Joined(thread) == thread # "running"

\* main.c:2016-2045  the main thread of the top-level make in
\* stop_memory_monitor (immediate): return at once when the run flag is
\* clear; clear it; join unless immediate; reset the terminal if stdout and
\* stderr are terminals, clear status_line_shown and return.
stop_memory_monitor ==
  LET me == ps["top"]
      To(pc, i) == [ps EXCEPT !["top"].stop = [pc |-> pc, immediate |-> i]]
  IN
  /\ alive["top"]
  /\ \/ /\ me.stop.pc = "idle" /\ host.stops < MaxStops
        /\ \E immediate \in {0, 1} :
             IF me.monitor_thread_running = 0
             THEN /\ UNCHANGED ps
                  /\ host' = [host EXCEPT
                                !.stops = @ + 1, !.stopped = TRUE,
                                !.early0 = @ \/ (immediate = 0
                                                   /\ me.thread = "running")]
             ELSE /\ ps' = To("clear", immediate)
                  /\ host' = [host EXCEPT !.stops = @ + 1]
     \/ /\ me.stop.pc = "clear"
        /\ ps' = [To(IF me.stop.immediate = 1 THEN "reset" ELSE "join",
                     me.stop.immediate)
                    EXCEPT !["top"].monitor_thread_running = 0]
        /\ host' = [host EXCEPT !.cleared = TRUE]
     \/ /\ me.stop.pc = "join" /\ Joined(me.thread)
        /\ ps' = To("reset", me.stop.immediate)
        /\ UNCHANGED host
     \/ /\ me.stop.pc = "reset"
        /\ ps' = [To("idle", 0) EXCEPT !["top"].status_line_shown = 0]
        /\ \E tty \in BOOLEAN :
             host' = [(IF tty THEN reset_terminal_state(me, host) ELSE host)
                        EXCEPT !.stopped = TRUE,
                               !.joined = @ \/ me.stop.immediate = 0]
  /\ UNCHANGED <<shared, th, alive, calls, gateVars, profVars, monVars, cls>>

\* main.c:1981-1988  terminal_cleanup_atexit, once: the terminal is reset if
\* a status line is shown and stdout and stderr are terminals.
terminal_cleanup_atexit ==
  /\ alive["top"] /\ ps["top"].stop.pc = "idle" /\ ~host.atexit
  /\ \E tty \in BOOLEAN :
       host' = [(IF ps["top"].status_line_shown = 1 /\ tty
                 THEN reset_terminal_state(ps["top"], host) ELSE host)
                  EXCEPT !.atexit = TRUE]
  /\ UNCHANGED <<shared, th, alive, calls, gateVars, profVars, monVars, cls,
                 ps>>

\* main.c:5201-5281  a step of the main thread of the top-level make inside
\* die (status): dying is set and the profiles are saved (5211-5220);
\* cleanup_shared_memory unmaps the region (1064-1066, munmap), sets
\* shared_data to NULL and closes the descriptor (1067-1073; the name is not
\* unlinked, the descriptor being -1 at the test); the children are waited
\* for (5234-5235); exit (status) ends the process when the handler
\* registered by atexit (2485-2486), stop_memory_monitor (0), has returned.
DieStep ==
  LET me == ps["top"]
      Moved(pc) == [ps EXCEPT !["top"].die = pc]
  IN
  /\ alive["top"] /\ me.stop.pc = "idle"
  /\ \/ /\ me.die = "idle" /\ me.dying = 0
        /\ \E out \in save_memory_profiles("top",
                         [me |-> [me EXCEPT !.dying = 1],
                          host |-> [host EXCEPT
                                      !.die_invoked = @ \cup {"top"}]]) :
             /\ ps' = [ps EXCEPT !["top"] = [out.me EXCEPT !.die = "unmap"]]
             /\ host' =
                  IF ~host.cache.on THEN out.host
                  ELSE IF "top" \in out.host.cache_writers
                       THEN [out.host EXCEPT !.cache.image = memory_profiles]
                       ELSE [out.host EXCEPT !.cache.ok = FALSE]
        /\ UNCHANGED alive
     \/ /\ me.die = "unmap"
        /\ ps' = [Moved("null") EXCEPT
                    !["top"].shared_data = IF @ = "mapped" THEN "unmapped"
                                           ELSE @]
        /\ host' = [host EXCEPT !.torn = @ \/ me.shared_data = "mapped"]
        /\ UNCHANGED alive
     \/ /\ me.die = "null"
        /\ ps' = [Moved("reap") EXCEPT !["top"].shared_data = "NULL",
                                    !["top"].shared_memory_fd = -1]
        /\ UNCHANGED <<host, alive>>
     \/ /\ me.die = "reap"
        /\ \A c \in JobPids : procs[c].state # "running"
        /\ ps' = Moved("exit")
        /\ UNCHANGED <<host, alive>>
     \/ /\ me.die = "exit" /\ host.stops > 0
        /\ ps' = Moved("gone")
        /\ alive' = [alive EXCEPT !["top"] = FALSE]
        /\ UNCHANGED host
  /\ UNCHANGED <<shared, th, calls, gateVars, profVars, monVars, cls>>

\* Writes to the terminal or pipe behind stderr start to fail with EPIPE or
\* EBADF.
PipeBreaks ==
  /\ host.pipe_ok
  /\ host' = [host EXCEPT !.pipe_ok = FALSE]
  /\ UNCHANGED <<shared, th, alive, calls, gateVars, profVars, monVars, cls,
                 ps>>

\* ------------------------------------------------------------ processes of the build

\* A job pid that has not been spawned.
NoProc ==
  [state |-> "unborn", ppid |-> 0, profile |-> NULL, rss_mb |-> 0,
   admitted_mb |-> 0, calls_at_spawn |-> 0]

\* The pids the walker can meet below the top-level make: the sub-make, the
\* jobs and their children.
WalkPids == {PidOfProc("submake")} \cup DOMAIN procs

\* /proc/<q>/status can be opened: process q exists.
Exists(q) ==
  IF q = PidOfProc("submake") THEN alive["submake"]
  ELSE procs[q].state = "running"

\* PPid of process q.  A job whose parent has died is reparented to init.
PPid(q) ==
  IF q = PidOfProc("submake") THEN PidOfProc("top")
  ELSE IF procs[q].ppid = PidOfProc("submake") /\ ~alive["submake"] THEN 1
       ELSE procs[q].ppid

\* main.c:1607  the source path that extract_filename_from_cmdline finds in
\* the command line of q, NULL for none: the sub-make's names no source file.
PathOf(q) == IF q = PidOfProc("submake") THEN NULL ELSE procs[q].profile

\* A search of the store that finds no entry.
ProfileOf_None(q) == NULL

\* main.c:1610-1620  the index of the first entry of the store whose
\* filename is the path of q, NULL without a path or an entry.
ProfileOf(q) ==
  LET names == ps["top"].filenames
      hits == {i \in 1 .. Len(names) : names[i] = PathOf(q)}
  IN  IF PathOf(q) = NULL \/ hits = {} THEN NULL
      ELSE (CHOOSE i \in hits : \A j \in hits : i <= j) - 1

\* VmRSS of q in MiB.
RssOf(q) == IF q = PidOfProc("submake") THEN 0 ELSE procs[q].rss_mb

\* The recipe runner spawns the job it was admitted for: the child runs the
\* compiler on the hint's source file.
Spawn(t) ==
  /\ Running(t) /\ gate[t].pc = "g_done" /\ gate[t].decision = "go"
  /\ \E c \in JobPids, r \in {0, 1} :
       /\ procs[c].state = "unborn"
       /\ procs' = [procs EXCEPT ![c] =
                      [state |-> "running", ppid |-> getpid(t),
                       profile |-> gate[t].hint, rss_mb |-> r,
                       admitted_mb |-> IF gate[t].recorded
                                       THEN gate[t].required ELSE 0,
                       calls_at_spawn |-> calls]]
  /\ gate' = [gate EXCEPT ![t] = GateIdle]
  /\ OsChange
  /\ UNCHANGED <<shared, th, alive, calls, meminfo, profVars, descendants,
                 compile_count, mon, sideVars>>

\* A process of the build exits: /proc no longer shows it, and its children
\* are reparented to init.
JobExit(c) ==
  /\ procs[c].state = "running"
  /\ procs' = [k \in DOMAIN procs |->
                IF k = c THEN [procs[k] EXCEPT !.state = "gone",
                                               !.profile = NULL, !.rss_mb = 0]
                ELSE IF procs[k].ppid = c THEN [procs[k] EXCEPT !.ppid = 1]
                ELSE procs[k]]
  /\ OsChange
  /\ UNCHANGED <<shared, th, alive, calls, gateVars, profVars, descendants,
                 compile_count, mon, sideVars>>

\* A process appears in the tree of the top-level make: a job run by the
\* top-level make itself, or the child of a running job.  Its command line
\* names a source file with a profile, or none.
Fork(q) ==
  /\ procs[q].state = "unborn"
  /\ \E h \in Hints, r \in 0 .. MaxRss :
       /\ q \in KidPids => procs[q - 20].state = "running"
       /\ procs' = [procs EXCEPT ![q] =
                      [state |-> "running",
                       ppid |-> IF q \in KidPids THEN q - 20
                                ELSE PidOfProc("top"),
                       profile |-> h, rss_mb |-> r,
                       admitted_mb |-> 0, calls_at_spawn |-> calls]]
  /\ OsChange
  /\ UNCHANGED <<shared, th, alive, calls, gateVars, profVars, descendants,
                 compile_count, mon, sideVars>>

\* The resident set of a running process grows or shrinks.
RssChange(q) ==
  /\ procs[q].state = "running"
  /\ \E r \in 0 .. MaxRss :
       /\ r # procs[q].rss_mb
       /\ procs' = [procs EXCEPT ![q].rss_mb = r]
  /\ OsChange
  /\ UNCHANGED <<shared, th, alive, calls, gateVars, profVars, descendants,
                 compile_count, mon, sideVars>>

\* ------------------------------------------------------------ monitor thread

TrackedIdx == 0 .. (MAX_TRACKED_DESCENDANTS - 1)

\* An entry of the zero-initialised static table main_monitoring_data.
NoDescendant ==
  [pid |-> 0, current_mb |-> 0, peak_mb |-> 0, old_peak_mb |-> 0,
   profile_idx |-> 0]

\* What a slot of the table beyond compile_count holds of a job with a
\* profile that the monitor tracked and removed after its exit
\* (main.c:1826-1830 move the entries and leave the last one as it was).
EarlierJob ==
  [pid |-> 9, current_mb |-> 1, peak_mb |-> MaxMb, old_peak_mb |-> 1,
   profile_idx |-> 0]

\* The monitor asleep between two ticks.  calm is history: when the tick
\* started no live thread was inside reserve_memory_mb and nothing was left that
\* could call it during the tick (no sub-make, no process for the walker).
MonIdle ==
  [pc |-> "sleep", visited |-> {}, skipped |-> {}, cur |-> 0, unused |-> 0,
   total_jobs |-> 0, tick |-> 0, calm |-> FALSE]

\* A search of the table that finds no entry.
DescIdx_NotFound(d, cnt, q) == -1

\* main.c:1575-1590  the index of q's entry in descendants[0 .. cnt), or -1.
DescIdx(d, cnt, q) ==
  IF \E i \in TrackedIdx : i < cnt /\ d[i].pid = q
  THEN CHOOSE i \in TrackedIdx :
         /\ i < cnt /\ d[i].pid = q
         /\ \A j \in TrackedIdx : (j < cnt /\ d[j].pid = q) => j <= i
  ELSE -1

\* What a tick can change and the next tick is compared on: the table, the
\* published unused peaks, the profile peaks and the job count.
Snapshot(d, cnt, unused, profiles, jobs) ==
  [descendants |-> d, compile_count |-> cnt, unused_peaks_mb |-> unused,
   memory_profiles |-> profiles, total_jobs |-> jobs]

\* main.c:1792-1797  the monitor wakes and probes the host; it returns when
\* the probe reports 0 percent.
MonitorWake ==
  /\ Running("mon") /\ mon.pc = "sleep" /\ ps["top"].thread = "running"
  /\ mon' = [mon EXCEPT !.pc = IF get_memory_stats(meminfo)[2] = 0
                               THEN "stopped" ELSE "walk",
                        !.calm = /\ get_memory_stats(meminfo)[2] # 0
                                 /\ \A u \in Threads : Running(u) => ~InCall(u)
                                 /\ ~alive["submake"]
                                 /\ \A q \in WalkPids : ~Exists(q)]
  /\ ps' = IF get_memory_stats(meminfo)[2] = 0
           THEN [ps EXCEPT !["top"].thread = "ended"] ELSE ps
  /\ UNCHANGED host
  /\ Note([hist EXCEPT
             !.calm_prev = ~hist.os_changed, !.os_changed = FALSE,
             !.start = Snapshot(descendants, compile_count, unused_peaks_mb,
                                memory_profiles, hist.last_total_jobs),
             !.raised = FALSE,
             !.orphans = {q \in DOMAIN procs : Exists(q) /\ PPid(q) = 1},
             !.untracked_prev = hist.untracked, !.untracked = FALSE])
  /\ UNCHANGED <<shared, th, alive, calls, gateVars, profVars, procs,
                 descendants, compile_count, cls>>

\* A visit that adds nothing to the unused peaks.
UnusedContribution_None(d, idx) == {0}

\* main.c:1692-1695  what the visit of the entry at idx adds to the unused
\* peaks; with idx = -1 the code reads descendants[-1], whose value is not
\* defined.
UnusedContribution(d, idx) ==
  IF idx < 0 THEN 0 .. MaxMb
  ELSE {IF d[idx].old_peak_mb > d[idx].current_mb
        THEN d[idx].old_peak_mb - d[idx].current_mb ELSE 0}

RECURSIVE SumRss(_)
\* main.c:1577, 1690  the VmRSS of the processes S and of their descendants,
\* which the walk below a process returns.
SumRss(S) ==
  IF S = {} THEN 0
  ELSE LET c == CHOOSE x \in S : TRUE
       IN RssOf(c)
          + SumRss({k \in WalkPids : Exists(k) /\ PPid(k) = c})
          + SumRss(S \ {c})

\* main.c:1689  child_rss_kb of the visit of q, in MiB.
ChildRss(q) == SumRss({k \in WalkPids : Exists(k) /\ PPid(k) = q})

RECURSIVE SendIdx(_, _, _)
\* main.c:1686-1687  the parent_idx the visit of process p hands to the walk
\* of p's children: p's profile index, or else the one p was handed itself.
SendIdx(d, cnt, p) ==
  IF p \notin WalkPids THEN -1
  ELSE LET pi == DescIdx(d, cnt, p)
       IN IF pi >= 0 /\ d[pi].profile_idx >= 0 THEN d[pi].profile_idx
          ELSE SendIdx(d, cnt, PPid(p))

\* main.c:1579-1599  parent_idx of the visit of a process q that has no
\* entry: the profile index in the entry of q's parent if the parent has
\* one, else the index handed down.
ParentIdx(d, cnt, q) ==
  LET pi == DescIdx(d, cnt, PPid(q))
  IN IF pi >= 0 THEN d[pi].profile_idx ELSE SendIdx(d, cnt, PPid(q))

\* A comparison that lets a rise of one MiB over the peak pass.
RaisesPeak_Late(new_current_mb, peak_mb) == new_current_mb > peak_mb + 1

\* main.c:1705  if (new_current_mb > ...descendants[descendant_idx].peak_mb)
RaisesPeak(new_current_mb, peak_mb) == new_current_mb > peak_mb

\* main.c:1686-1710  the rest of the visit of process q, after the release
\* call if there was one: the unused peak, the job count, the current and
\* peak memory of the entry, and the non-final profile update of the store
\* that holds the peaks profiles in count entries.
FinishVisit(q, d, cnt, new_descendant, profiles, count) ==
  LET idx == DescIdx(d, cnt, q)
      profile_idx == IF idx < 0 THEN NULL ELSE d[idx].profile_idx
      new_current_mb == RssOf(q) + ChildRss(q)
      counted == idx >= 0 /\ profile_idx >= 0
      update == /\ counted
                /\ (new_current_mb > d[idx].current_mb \/ new_descendant)
      raise == update /\ RaisesPeak(new_current_mb, d[idx].peak_mb)
  IN /\ \E u \in UnusedContribution(d, idx) :
          mon' = [mon EXCEPT !.unused = @ + u, !.visited = @ \cup {q},
                             !.total_jobs = IF counted THEN @ + 1 ELSE @,
                             !.pc = "walk", !.cur = 0]
     /\ Note([hist EXCEPT
                !.raised = @ \/ (update /\ new_current_mb # d[idx].current_mb),
                !.untracked = @ \/ idx < 0])
     /\ descendants' =
          IF update
          THEN [d EXCEPT ![idx].current_mb = new_current_mb,
                         ![idx].peak_mb = IF raise THEN new_current_mb ELSE @]
          ELSE d
     /\ compile_count' = cnt
     /\ IF raise
        THEN RecordIn(profiles, count, profile_idx, new_current_mb, FALSE)
        ELSE /\ memory_profiles' = profiles
             /\ UNCHANGED <<memory_profiles_dirty, last_record>>

\* main.c:1530-1684  find_child_descendants meets process q, a child of a
\* process whose children it walks.  A process without an entry, below no
\* process with a profile, gets one (main.c:1655-1665, which leaves peak_mb
\* as it was) and, with a stored peak, the call
\* reserve_memory_mb (q, -profile_peak_mb) of main.c:1676; with the table
\* full it is passed over, and so are its children (main.c:1602-1605).  A
\* path that the store does not hold gets a new entry at its end, with the
\* resident set of q as its peak (main.c:1626-1649; the array grows by
\* doubling, main.c:899-937, and an entry never moves to another index).
\* The release call starts with the test of main.c:1232-1235: with
\* shared_data NULL it calls init_shared_memory, which at makelevel 0 clears
\* the region it maps (main.c:1020-1024), and returns 0 when that fails.
\* With the region unmapped and shared_data not yet NULL (main.c:1066) the
\* read of main.c:1246 goes through a dangling pointer: the process gets
\* SIGSEGV, or the call finds nothing of the region.
Visit(q) ==
  /\ Running("mon") /\ mon.pc = "walk" /\ th["mon"].pc = "idle"
  /\ q \notin mon.visited /\ Exists(q)
  /\ \/ PPid(q) = PidOfProc("top")
     \/ PPid(q) \in mon.visited \ mon.skipped
  /\ LET idx == DescIdx(descendants, compile_count, q)
         parent_idx == ParentIdx(descendants, compile_count, q)
         found == ProfileOf(q)
         fresh == /\ idx < 0 /\ parent_idx < 0
                  /\ compile_count < MAX_TRACKED_DESCENDANTS
                  /\ PathOf(q) # NULL /\ found = NULL
         profile_idx == IF fresh THEN memory_profile_count ELSE found
         profile_peak_mb == IF found = NULL THEN 0 ELSE memory_profiles[found]
         profiles == IF fresh
                     THEN [memory_profiles EXCEPT ![profile_idx] = RssOf(q)]
                     ELSE memory_profiles
         added == [descendants EXCEPT ![compile_count] =
                     [@ EXCEPT !.pid = q, !.current_mb = RssOf(q),
                               !.old_peak_mb = profile_peak_mb,
                               !.profile_idx = profile_idx]]
         releases == /\ idx < 0 /\ parent_idx < 0
                     /\ compile_count < MAX_TRACKED_DESCENDANTS
                     /\ profile_peak_mb > 0
         region == IF releases THEN ps["top"].shared_data ELSE "mapped"
         inits == IF region = "NULL"
                  THEN init_shared_memory("top",
                                          [me |-> ps["top"], host |-> host])
                  ELSE {[me |-> ps["top"], host |-> host]}
     IN \E out \in inits, fault \in {region = "unmapped", FALSE} :
        /\ ps' = [ps EXCEPT !["top"] =
                    IF fresh THEN [out.me EXCEPT
                                     !.filenames = Append(@, PathOf(q))]
                    ELSE out.me]
        /\ host' = out.host
        /\ alive' = IF fault THEN [alive EXCEPT !["top"] = FALSE] ELSE alive
        /\ IF region = "NULL" /\ out.me.shared_data = "mapped"
           THEN /\ reservation_count' = 0
                /\ reservations' =
                     [i \in Slots |-> [pid |-> 0, reserved_mb |-> 0]]
                /\ unused_peaks_mb' = 0
                /\ total_reserved_mb' = 0
                /\ reserved_count_mutex' = NoThread
                /\ total_reserved_mb_mutex' = NoThread
           ELSE UNCHANGED shared
        /\ IF idx >= 0 \/ parent_idx >= 0
           THEN /\ FinishVisit(q, descendants, compile_count, FALSE,
                               memory_profiles, memory_profile_count)
                /\ UNCHANGED th
           ELSE IF compile_count >= MAX_TRACKED_DESCENDANTS
           THEN /\ mon' = [mon EXCEPT !.visited = @ \cup {q},
                                      !.skipped = @ \cup {q}]
                /\ UNCHANGED <<th, descendants, compile_count, profVars, hist>>
           ELSE IF profile_peak_mb > 0 /\ out.me.shared_data = "mapped"
                THEN /\ th' = Enter("mon", q, -profile_peak_mb, "walker")
                     /\ descendants' = added
                     /\ compile_count' = compile_count + 1
                     /\ mon' = [mon EXCEPT !.pc = "walk_call", !.cur = q]
                     /\ UNCHANGED <<profVars, hist>>
                ELSE /\ FinishVisit(q, added, compile_count + 1, TRUE, profiles,
                                    IF fresh THEN memory_profile_count + 1
                                    ELSE memory_profile_count)
                     /\ UNCHANGED th
  /\ UNCHANGED <<calls, gateVars, procs, cls>>

\* main.c:1676-1684  the release call of the walker has returned.
WalkerReturn ==
  /\ Running("mon") /\ mon.pc = "walk_call"
  /\ th["mon"].pc = "r_done" /\ th["mon"].from = "walker"
  /\ th' = [th EXCEPT !["mon"] = IdleFrame]
  /\ FinishVisit(mon.cur, descendants, compile_count, TRUE, memory_profiles,
                 memory_profile_count)
  /\ UNCHANGED <<shared, alive, calls, gateVars, procs, sideVars>>

\* The processes whose children the walk visits and has not all visited.
WalkOpen ==
  {q \in WalkPids :
     /\ Exists(q) /\ q \notin mon.visited
     /\ \/ PPid(q) = PidOfProc("top")
        \/ PPid(q) \in mon.visited \ mon.skipped}

\* main.c:1713-1715  the walk has met every process of the tree.
WalkDone ==
  /\ Running("mon") /\ mon.pc = "walk"
  /\ WalkOpen = {}
  /\ mon' = [mon EXCEPT !.pc = "exits"]
  /\ UNCHANGED <<shared, th, alive, calls, gateVars, profVars, procs,
                 descendants, compile_count, hist, sideVars>>

\* An exit test that also takes a process that has left the tree for gone.
Exited_OrLeft(i) ==
  /\ i < compile_count
  /\ ~Exists(descendants[i].pid) \/ PPid(descendants[i].pid) = 1

\* An entry of the table whose process no longer exists.
Exited(i) == i < compile_count /\ ~Exists(descendants[i].pid)

\* main.c:1807-1834  one iteration of the exit loop that finds the process of
\* entry i gone: the final profile update, and the removal of the entry by
\* shifting the later ones down.  It makes no reserve_memory_mb call.
DetectExit ==
  /\ Running("mon") /\ mon.pc = "exits"
  /\ \E i \in TrackedIdx :
       /\ Exited(i) /\ \A j \in TrackedIdx : j < i => ~Exited(j)
       /\ LET e == descendants[i] IN
            IF e.profile_idx >= 0 /\ (e.peak_mb > 0 \/ e.old_peak_mb > 0)
            THEN record_file_memory_usage_by_index(e.profile_idx, e.peak_mb,
                                                   TRUE)
            ELSE UNCHANGED profVars
       /\ descendants' =
            [j \in TrackedIdx |->
               IF j >= i /\ j < compile_count - 1
               THEN descendants[j + 1] ELSE descendants[j]]
       /\ compile_count' = compile_count - 1
  /\ UNCHANGED <<shared, th, alive, calls, gateVars, procs, mon, hist, sideVars>>

\* main.c:1692-1695 over the table d: the unused peaks of its entries.
Shortfall(d, cnt) ==
  LET RECURSIVE Upto(_)
      Upto(n) == IF n = 0 THEN 0
                 ELSE Upto(n - 1)
                      + (IF /\ d[n - 1].profile_idx >= 0
                            /\ d[n - 1].old_peak_mb > d[n - 1].current_mb
                         THEN d[n - 1].old_peak_mb - d[n - 1].current_mb
                         ELSE 0)
  IN Upto(cnt)

\* main.c:1836-1873  the end of a tick, when the exit loop has met no further
\* gone process: the monitor publishes the unused peaks, compares the totals
\* (it only warns), and saves the profiles when they are dirty and 10 s have
\* passed since the last save.  main.c:1875-1892: the status line is shown
\* and the loop tests the run flag; when it is clear the thread closes its
\* private descriptor and returns.  main.c:1837-1839: the region is written
\* if (shared_data); through a pointer to a region that munmap has removed
\* the write is not defined, and the process is killed or goes on.
PublishTick ==
  /\ Running("mon") /\ mon.pc = "exits"
  /\ \A i \in TrackedIdx : ~Exited(i)
  /\ unused_peaks_mb' = IF ps["top"].shared_data = "mapped" THEN mon.unused
                        ELSE unused_peaks_mb
  /\ alive' \in IF ps["top"].shared_data = "unmapped"
                THEN {alive, [alive EXCEPT !["top"] = FALSE]} ELSE {alive}
  /\ \E out \in display_memory_status([me |-> ps["top"], host |-> host]),
        save \in BOOLEAN, written \in BOOLEAN,
        t \in {n \in {host.clock.now, host.clock.now + 1} : n <= MaxNow} :
       LET c == host.clock
           again == LoopContinues(out.me.monitor_thread_running)
           flush == /\ memory_profiles_dirty = 1
                    /\ IF c.on THEN SaveDue(t, c.last_save_time) ELSE save
           unwritten == IF flush /\ written THEN -1
                        ELSE IF memory_profiles_dirty = 1 /\ c.unwritten < 0
                             THEN c.now ELSE c.unwritten
           dirty == IF flush THEN -1
                    ELSE IF memory_profiles_dirty = 1 /\ c.dirty < 0
                         THEN c.now ELSE c.dirty
       IN
       /\ c.on => save
       /\ ~c.on => t = c.now
       /\ ~(c.on /\ flush) => written
       /\ memory_profiles_dirty' = IF flush THEN 0 ELSE memory_profiles_dirty
       /\ ps' = [ps EXCEPT !["top"] =
                   IF again THEN out.me
                   ELSE [out.me EXCEPT !.thread = "ended",
                                       !.monitor_stderr_fd = -1]]
       /\ host' = [out.host EXCEPT
                     !.woke_clear =
                       @ \/ (again /\ out.me.monitor_thread_running = 0),
                     !.after_unmap = @ \/ ps["top"].shared_data = "unmapped",
                     !.cache.image = IF host.cache.on /\ flush /\ written
                                     THEN memory_profiles ELSE @,
                     !.clock =
                       IF ~c.on THEN c
                       ELSE [c EXCEPT
                               !.now = t,
                               !.last_save_time = IF flush THEN t ELSE @,
                               !.unwritten = unwritten,
                               !.dirty = dirty,
                               !.close = @ \/ (/\ flush
                                               /\ c.last_save_time > 0
                                               /\ t - c.last_save_time < SaveGap),
                               !.overdue = @ \/ (/\ unwritten >= 0
                                                 /\ t - unwritten > SaveGap + 1),
                               !.stale = @ \/ (/\ dirty >= 0
                                               /\ t - dirty > SaveGap + 1),
                               !.failed = @ \/ (flush /\ ~written)]]
       /\ mon' = [MonIdle EXCEPT !.tick = 1 - mon.tick,
                                 !.pc = IF again THEN "sleep" ELSE "left"]
  /\ Note([hist EXCEPT
             !.ticks = IF @ < 2 THEN @ + 1 ELSE @,
             !.quiet = hist.calm_prev /\ ~hist.os_changed,
             !.same = hist.start =
                        Snapshot(descendants, compile_count, mon.unused,
                                 memory_profiles, mon.total_jobs),
             !.same_table = [hist.start EXCEPT !.unused_peaks_mb = 0] =
                              Snapshot(descendants, compile_count, 0,
                                       memory_profiles, mon.total_jobs),
             !.exact = /\ ~hist.raised
                       /\ mon.skipped = {}
                       /\ mon.visited =
                            {descendants[i].pid :
                               i \in {j \in TrackedIdx : j < compile_count}},
             !.start = <<>>, !.orphans = {},
             !.last_total_jobs = mon.total_jobs])
  /\ UNCHANGED <<reservation_count, reservations, total_reserved_mb,
                 reserved_count_mutex, total_reserved_mb_mutex, th,
                 calls, gateVars, memory_profiles, last_record, procs,
                 descendants, compile_count, cls>>

\* A step of the monitor thread.
MonitorStep ==
  \/ MonitorWake
  \/ \E q \in WalkPids : Visit(q)
  \/ ReserveStep("mon")
  \/ WalkerReturn
  \/ WalkDone
  \/ DetectExit
  \/ PublishTick

\* ------------------------------------------------------------ SpecReserve

\* The region after init_shared_memory of the top-level make (main.c:1024,
\* all fields zero, both mutexes unlocked) and after n other sub-makes of the
\* build have each reserved a MiB.
RegionWith(n, a) ==
  /\ reservation_count = n
  /\ reservations = [s \in Slots |->
                       IF s < n THEN [pid |-> OtherPid(s), reserved_mb |-> a]
                       ELSE [pid |-> 0, reserved_mb |-> 0]]
  /\ unused_peaks_mb = 0
  /\ total_reserved_mb = n * a
  /\ reserved_count_mutex = NoThread
  /\ total_reserved_mb_mutex = NoThread

\* No call in progress in any thread, every process running.
ThreadsIdle ==
  /\ th = [t \in Threads |-> IdleFrame]
  /\ gate = [t \in Threads |-> GateIdle]
  /\ alive = [p \in Procs |-> TRUE]
  /\ calls = 0
  /\ procs = [c \in AllPids |-> NoProc]
  /\ descendants = [i \in TrackedIdx |-> NoDescendant]
  /\ compile_count = 0
  /\ mon = MonIdle

\* The profile store holds the given peaks, saved (main.c:885).
ProfilesAre(peaks) ==
  /\ memory_profiles = peaks
  /\ memory_profiles_dirty = 0
  /\ last_record = NoRecord

\* A host that reports f MiB free.
HostFree(f) ==
  meminfo = [readable |-> TRUE, total_kb |-> MaxFreeMb * 1024,
             avail_kb |-> f * 1024]

InitReserve ==
  /\ hist = NoHistory
  /\ cls = NoText /\ ps = RunningBuild /\ host = QuietHost
  /\ \E n \in 0 .. MAX_RESERVATIONS : RegionWith(n, 1)
  /\ ThreadsIdle
  /\ ProfilesAre([i \in ProfileIdx |-> 0])
  /\ HostFree(MaxFreeMb)

NextReserve ==
  \/ \E t \in Threads : Call(t)
  \/ \E t \in Threads : ReserveStep(t)
  \/ \E t \in Threads : Return(t)

SpecReserve == InitReserve /\ [][NextReserve]_vars


\* ------------------------------------------------------------ SpecGate

\* Recipes are admitted through the gate by the top-level make and by a
\* sub-make, which release with reserve_memory_mb calls of their own, while
\* the monitor thread publishes unused peaks.  The profiles hold the peaks
\* 1 .. MaxMb and the host reports any of MeminfoStates.
InitGate ==
  /\ hist = NoHistory
  /\ cls = NoText /\ ps = RunningBuild /\ host = QuietHost
  /\ \E n \in 0 .. MAX_RESERVATIONS : RegionWith(n, 1)
  /\ ThreadsIdle
  /\ ProfilesAre([i \in ProfileIdx |-> IF i < MaxMb THEN i + 1 ELSE MaxMb])
  /\ meminfo \in MeminfoStates

NextGate ==
  \/ \E t \in GateCallers :
       \/ GateProbe(t) \/ GateReadReserved(t) \/ GateDecide(t)
       \/ GateReturn(t) \/ GateLeave(t)
       \/ PostExitRelease(t) \/ Return(t)
       \/ ReserveStep(t)
  \/ Publish

SpecGate == InitGate /\ [][NextGate]_vars

\* ------------------------------------------------------------ SpecGateCrash

\* SpecGate with make processes that may be killed at any point.
NextGateCrash ==
  \/ NextGate
  \/ \E p \in Procs : Die(p)

SpecGateCrash == InitGate /\ [][NextGateCrash]_vars

\* ------------------------------------------------------------ SpecMonitor

\* A sub-make admits a job through the gate, spawns it and releases after
\* its exit, or is killed, while the monitor thread of the top-level make
\* ticks.  The monitor thread is scheduled as long as it can take a step.
InitMonitor ==
  /\ hist = NoHistory
  /\ cls = NoText /\ ps = RunningBuild /\ host = QuietHost
  /\ \E n \in 0 .. (MAX_RESERVATIONS - 1) : RegionWith(n, 1)
  /\ ThreadsIdle
  /\ ProfilesAre([i \in ProfileIdx |-> IF i < MaxMb THEN i + 1 ELSE MaxMb])
  /\ \E f \in {0, MaxFreeMb - 1} : HostFree(f)

NextMonitor ==
  \/ GateProbe("sub") \/ GateReadReserved("sub") \/ GateDecide("sub")
  \/ GateReturn("sub") \/ GateLeave("sub") \/ Spawn("sub")
  \/ PostExitRelease("sub") \/ Return("sub") \/ ReserveStep("sub")
  \/ \E c \in JobPids : JobExit(c)
  \/ Die("submake")
  \/ MonitorStep

SpecMonitor == InitMonitor /\ [][NextMonitor]_vars /\ WF_vars(MonitorStep)

\* ------------------------------------------------------------ SpecWalk

\* The monitor thread of the top-level make ticks while the jobs of the
\* top-level make and their children come, grow, shrink and go; no sub-make
\* runs.  The history of the ticks is kept.
InitWalk ==
  /\ RegionWith(0, 0)
  /\ th = [t \in Threads |-> IdleFrame]
  /\ gate = [t \in Threads |-> GateIdle]
  /\ alive = [p \in Procs |-> p = "top"]
  /\ calls = 0
  /\ procs = [c \in AllPids |-> NoProc]
  /\ descendants \in {[i \in TrackedIdx |-> NoDescendant],
                       [i \in TrackedIdx |-> EarlierJob]}
  /\ compile_count = 0
  /\ mon = MonIdle
  /\ cls = NoText /\ ps = RunningBuild /\ host = QuietHost
  /\ hist = [NoHistory EXCEPT !.on = TRUE]
  /\ ProfilesAre([i \in ProfileIdx |-> IF i < MaxMb THEN i + 1 ELSE MaxMb])
  /\ HostFree(MaxFreeMb - 1)

\* A step of the monitor thread whose reserve_memory_mb calls are releases.
WalkerStep ==
  \/ MonitorWake
  \/ \E q \in WalkPids : Visit(q)
  \/ ReleaseStep("mon")
  \/ WalkerReturn
  \/ WalkDone
  \/ DetectExit
  \/ PublishTick

\* The steps of a reserve_memory_mb call read nothing of /proc, so a change
\* of the processes during the call is taken right before or after it.
NextWalk ==
  \/ /\ th["mon"].pc = "idle"
     /\ \E q \in DOMAIN procs : Fork(q) \/ RssChange(q) \/ JobExit(q)
  \/ WalkerStep

SpecWalk == InitWalk /\ [][NextWalk]_vars

\* ------------------------------------------------------------ SpecFlush

\* The monitor thread ticks while the jobs of the top-level make come, grow,
\* shrink and go, with the clock of the saves followed: a tick takes a second
\* at most, and a save may fail to write.  The first profile has no peak yet.
InitFlush ==
  /\ RegionWith(0, 0)
  /\ ThreadsIdle
  /\ hist = NoHistory
  /\ cls = NoText /\ ps = RunningBuild
  /\ host = [QuietHost EXCEPT !.clock.on = TRUE]
  /\ ProfilesAre([i \in ProfileIdx |-> IF i < MaxMb THEN i ELSE MaxMb])
  /\ HostFree(MaxFreeMb - 1)

\* The jobs have no children.
NextFlush ==
  \/ /\ th["mon"].pc = "idle"
     /\ \E q \in JobPids : Fork(q) \/ RssChange(q) \/ JobExit(q)
  \/ WalkerStep

SpecFlush == InitFlush /\ [][NextFlush]_vars

\* ------------------------------------------------------------ SpecSave

\* The main thread and the monitor thread of the top-level make save the
\* profiles, each at its own pace.
SpecSave == InitMonitor /\ [][\E t \in Savers : SaveStep(t)]_vars

\* ------------------------------------------------------------ SpecClassify

\* The classifier over every command line of at most MaxTextLen characters.
InitClassify ==
  /\ hist = NoHistory
  /\ RegionWith(0, 0)
  /\ ThreadsIdle
  /\ ProfilesAre([i \in ProfileIdx |-> 0])
  /\ HostFree(MaxFreeMb)
  /\ ps = RunningBuild /\ host = QuietHost
  /\ \E t \in Strings(MaxTextLen) : cls = [NoText EXCEPT !.pc = "text", !.text = t]

NextClassify == Classify \/ Reclassify

SpecClassify == InitClassify /\ [][NextClassify]_vars

\* ------------------------------------------------------------ SpecTeardown

\* The top-level make and a sub-make, from their start, call the functions
\* that set the region and the monitor up and tear them down, in any order.
\* An object /make_memory_shared found on the host was left by an earlier
\* build, with some slots taken and either mutex free or held by a process
\* of that build.
InitTeardown ==
  /\ hist = NoHistory
  /\ cls = NoText
  /\ host \in {QuietHost, [QuietHost EXCEPT !.linked = FALSE]}
  /\ \E n \in 0 .. MAX_RESERVATIONS, c, t \in {NoThread, "other"} :
       /\ ~host.linked => n = 0 /\ c = NoThread /\ t = NoThread
       /\ reservation_count = n
       /\ reservations =
            [s \in Slots |-> IF s < n THEN [pid |-> OtherPid(s), reserved_mb |-> 1]
                             ELSE [pid |-> 0, reserved_mb |-> 0]]
       /\ unused_peaks_mb = 0
       /\ total_reserved_mb = n
       /\ reserved_count_mutex = c
       /\ total_reserved_mb_mutex = t
  /\ ThreadsIdle
  /\ ProfilesAre([i \in ProfileIdx |-> 0])
  /\ HostFree(MaxFreeMb)
  /\ ps = [p \in Procs |-> NoMake]

NextTeardown == \E p \in Procs : MakeCall(p)

SpecTeardown == InitTeardown /\ [][NextTeardown]_vars

\* ------------------------------------------------------------ SpecStop

\* The monitor thread of the top-level make ticks with the status line
\* enabled and no job running, while the main thread stops the monitor up to
\* MaxStops times and the atexit cleanup runs; the writes to the terminal may
\* start to fail.  Both threads are scheduled as long as they can step.
InitStop ==
  /\ RegionWith(0, 0)
  /\ th = [t \in Threads |-> IdleFrame]
  /\ gate = [t \in Threads |-> GateIdle]
  /\ alive = [p \in Procs |-> p = "top"]
  /\ calls = 0
  /\ procs = [c \in AllPids |-> NoProc]
  /\ descendants = [i \in TrackedIdx |-> NoDescendant]
  /\ compile_count = 0
  /\ mon = MonIdle
  /\ cls = NoText
  /\ hist = NoHistory
  /\ ProfilesAre([i \in ProfileIdx |-> IF i < MaxMb THEN i + 1 ELSE MaxMb])
  /\ \E f \in {0, MaxFreeMb - 1} : HostFree(f)
  /\ ps = [RunningBuild EXCEPT !["top"].disable_memory_display = 0]
  /\ host = QuietHost

\* A step of the monitor thread when no job runs.
MonitorLoop == MonitorWake \/ WalkDone \/ PublishTick

NextStop ==
  \/ MonitorLoop
  \/ stop_memory_monitor
  \/ terminal_cleanup_atexit
  \/ PipeBreaks

SpecStop ==
  InitStop /\ [][NextStop]_vars /\ WF_vars(MonitorLoop)
    /\ WF_vars(stop_memory_monitor)

\* ------------------------------------------------------------ SpecDie

\* The top-level make goes through die() while its monitor thread ticks and
\* its jobs run and exit; no job is started once die() is entered.  The
\* profile store is cold, so the walker has nothing to release.
InitDie ==
  /\ RegionWith(0, 0)
  /\ ThreadsIdle
  /\ hist = NoHistory
  /\ cls = NoText /\ ps = RunningBuild /\ host = QuietHost
  /\ ProfilesAre([i \in ProfileIdx |-> 0])
  /\ \E f \in 1 .. (MaxFreeMb - 1) : HostFree(f)

NextDie ==
  \/ DieStep
  \/ /\ ps["top"].die = "exit"
     /\ host.stops = 0 \/ ps["top"].stop.pc # "idle"
     /\ stop_memory_monitor
  \/ \E q \in JobPids :
       \/ ps["top"].dying = 0 /\ Fork(q)
       \/ RssChange(q)
       \/ JobExit(q)
  \/ MonitorWake
  \/ \E q \in WalkPids : Visit(q)
  \/ WalkDone
  \/ DetectExit
  \/ PublishTick

SpecDie == InitDie /\ [][NextDie]_vars

\* ------------------------------------------------------------ SpecProfile

\* The profile store under the updates of the monitor thread.
InitProfile ==
  /\ hist = NoHistory
  /\ cls = NoText /\ ps = RunningBuild /\ host = QuietHost
  /\ RegionWith(0, 0)
  /\ ThreadsIdle
  /\ \E peaks \in [ProfileIdx -> 0 .. MaxPeak] : ProfilesAre(peaks)
  /\ HostFree(MaxFreeMb)

NextProfile == Record \/ Flush

SpecProfile == InitProfile /\ [][NextProfile]_vars

\* ------------------------------------------------------------ claims

\* No thread is inside reserve_memory_mb.
Quiescent == \A t \in Threads : th[t].pc \in {"idle", "r_done"}

\* C2: whenever no reserve_memory_mb call is in progress, total_reserved_mb
\* equals the sum of reserved_mb over the slots whose pid is non-zero.
C2_TotalEqualsTableSum == Quiescent => total_reserved_mb = TableSum

\* In this step thread t returns from a release: reserve_memory_mb (p, mb)
\* with mb <= 0.
ReleaseReturns(t) ==
  th[t].pc # "r_done" /\ th'[t].pc = "r_done" /\ th'[t].mb <= 0

HoldsReservation(p) ==
  \E s \in Slots : reservations[s].pid = p /\ reservations[s].reserved_mb > 0

\* The monitor completes tick after tick.
MonitorKeepsTicking == []<>(mon.tick = 0) /\ []<>(mon.tick = 1)

\* C3: when the sub-make has died while a slot holds a positive amount under
\* its pid, and the monitor keeps ticking, eventually no slot has its pid.
C3_DeadHolderEventuallyFreed ==
  MonitorKeepsTicking =>
    ((~alive["submake"] /\ HoldsReservation(PidOfProc("submake")))
       ~> (\A s \in Slots : reservations[s].pid # PidOfProc("submake")))

\* C4: when the walker's release call for a newly met job c has returned, c's
\* parent having been admitted for c with a reservation of the profile's
\* stored peak and having started no call since, the parent's pid no longer
\* holds that reservation.
C4_WalkerReleasesCallersReservation ==
  \A c \in JobPids :
    (/\ th["mon"].pc = "r_done" /\ th["mon"].from = "walker"
     /\ th["mon"].pid = c
     /\ procs[c].admitted_mb > 0 /\ procs[c].admitted_mb = -th["mon"].mb
     /\ calls = procs[c].calls_at_spawn
     /\ alive["submake"])
      => ~Recorded(procs[c].ppid, procs[c].admitted_mb)

\* A gate call of thread t has returned and its caller has not yet acted.
GateDone(t) == gate[t].pc = "g_done"

\* The probe of the gate call in frame g determined the free memory.
ProbeKnown(g) == ~ProbeUnknown(g.stats)

TableFullOfOthers(p) ==
  \A s \in Slots : reservations[s].pid # 0 /\ reservations[s].pid # p

\* C6: a reserve_memory_mb (p, mb) call with mb > 0 that found no free slot
\* has returned 0 without a write to the shared region and holds neither
\* mutex; when the gate made the call, the gate's decision is go.
C6_FullTableFailsGracefully ==
  \A t \in GateCallers :
    (th[t].pc = "r_done" /\ th[t].path = "noslot")
      => /\ th[t].mb # 0 /\ th[t].ret = 0
         /\ ~th[t].touched
         /\ reserved_count_mutex # t /\ total_reserved_mb_mutex # t
         /\ th[t].from = "gate" => gate[t].decision = "go"

\* The gate's reserve_memory_mb call returned through the no-slot exit while
\* every slot is occupied by another pid.
C6_Witness ==
  \E t \in GateCallers :
    /\ th[t].pc = "r_done" /\ th[t].path = "noslot" /\ th[t].from = "gate"
    /\ th[t].mb > 0 /\ TableFullOfOthers(th[t].pid)

\* C7: when /proc/meminfo is unreadable or has no MemAvailable figure, a gate
\* call returns go whatever its requirement, the reserved total and the
\* unused peaks are.
C7_UnknownProbeAdmits ==
  \A t \in GateCallers :
    (GateDone(t) /\ (~meminfo.readable \/ meminfo.avail_kb = 0))
      => gate[t].decision = "go"

\* With /proc/meminfo unreadable the gate admitted a requirement that exceeds
\* what the probe returned.
C7_Witness ==
  \E t \in GateCallers :
    /\ GateDone(t) /\ ~meminfo.readable
    /\ gate[t].required > 0 /\ gate[t].decision = "go"
    /\ gate[t].reserved_mb + gate[t].unused_peaks_mb > 0

\* The mutex thread t is waiting for, or NoThread's place when it waits for
\* none.
WaitsFor(t) ==
  IF th[t].pc = "r_lock_count" THEN reserved_count_mutex
  ELSE IF th[t].pc \in {"r_lock_rel", "r_lock_add"}
       THEN total_reserved_mb_mutex
       ELSE NoThread

\* C8: a running caller inside the gate's reserve_memory_mb call never waits
\* for a mutex held by a thread of a process that has died (which would
\* never unlock it).
C8_NeverWaitsForDeadHolder ==
  \A t \in GateCallers :
    (Running(t) /\ gate[t].pc = "g_reserve" /\ WaitsFor(t) # NoThread)
      => Running(WaitsFor(t))

\* max (a, b)
Max(a, b) == IF a >= b THEN a ELSE b

\* C9: after a non-final update (idx, x, final = 0) on a valid index with
\* stored peak p the stored peak is max (p, x); the dirty flag is set when
\* x > p, and when x <= p neither the store nor the flag has changed; no
\* other entry changes.
C9_NonFinalUpdate ==
  (last_record.valid /\ ~last_record.final) =>
    LET r == last_record
        p == r.prev_peak_mb
        x == r.memory_mb
    IN /\ memory_profiles[r.idx] = Max(p, x)
       /\ memory_profiles[r.idx] >= x /\ memory_profiles[r.idx] >= p
       /\ x > p => memory_profiles_dirty = 1
       /\ x <= p => /\ memory_profiles = r.profiles_before
                    /\ memory_profiles_dirty = r.dirty_before
       /\ \A j \in ProfileIdx \ {r.idx} :
            memory_profiles[j] = r.profiles_before[j]

\* Non-final updates were recorded with the flag clear: one equal to the
\* stored peak, which left the flag clear.
C9_Witness ==
  /\ last_record.valid /\ ~last_record.final
  /\ last_record.memory_mb = last_record.prev_peak_mb
  /\ last_record.prev_peak_mb > 0
  /\ last_record.dirty_before = 0 /\ memory_profiles_dirty = 0

\* C10: after a final update (idx, x, final = 1) on a valid index with
\* previous peak p the stored peak y is x when p <= x and p - (p - x) / 3
\* when p > x; the dirty flag is set and x <= y <= max (p, x).  For p = 900,
\* x = 600 the stored value is 800.
C10_FinalUpdate ==
  /\ (last_record.valid /\ last_record.final) =>
       LET r == last_record
           p == r.prev_peak_mb
           x == r.memory_mb
           y == memory_profiles[r.idx]
       IN /\ p <= x => y = x
          /\ p > x => y = p - ((p - x) \div 3)
          /\ memory_profiles_dirty = 1
          /\ x <= y /\ y <= Max(p, x)
  /\ StoredPeak(900, 600, TRUE) = 800

\* A final update of 0 on a stored peak of 6 left 4.
C10_Witness ==
  /\ last_record.valid /\ last_record.final
  /\ last_record.prev_peak_mb = 6 /\ last_record.memory_mb = 0
  /\ memory_profiles[last_record.idx] = 4


\* C11: when a tick of the monitor has ended, every entry of the descendant
\* table with a profile has a peak_mb that is at least its current_mb.
C11_PeakAtLeastCurrent ==
  mon.pc = "sleep" =>
    \A i \in TrackedIdx :
      (i < compile_count /\ descendants[i].profile_idx >= 0)
        => descendants[i].peak_mb >= descendants[i].current_mb

\* A tick has ended with an entry that has a profile and whose peak was
\* raised to the memory the walk found, and one whose peak is the stale
\* value the slot held before.
C11_Witness ==
  /\ mon.pc = "sleep" /\ hist.ticks >= 1
  /\ \E i \in TrackedIdx :
       /\ i < compile_count /\ descendants[i].profile_idx >= 0
       /\ descendants[i].current_mb > 0
       /\ descendants[i].peak_mb = descendants[i].current_mb

Tokens(text) ==
  {ab \in (1 .. Len(text)) \X (1 .. Len(text)) :
     /\ ab[1] <= ab[2]
     /\ \A i \in ab[1] .. ab[2] : text[i] # 32
     /\ At(text, ab[1] - 1) \in {32, 0} /\ At(text, ab[2] + 1) \in {32, 0}}

\* The token ab of text ends in .cpp, .cc or .c and contains a '/'.
SourceToken(text, ab) ==
  /\ \/ ab[2] - ab[1] >= 3 /\ StartsAt(text, ab[2] - 3, <<46, 99, 112, 112>>)
     \/ ab[2] - ab[1] >= 2 /\ StartsAt(text, ab[2] - 2, <<46, 99, 99>>)
     \/ ab[2] - ab[1] >= 1 /\ StartsAt(text, ab[2] - 1, <<46, 99>>)
  /\ \E i \in ab[1] .. ab[2] : text[i] = 47

\* The last token of text that ends in .cpp, .cc or .c and contains a '/',
\* without its leading "../", or NoFile.
LastSourceToken(text) ==
  LET src == {ab \in Tokens(text) : SourceToken(text, ab)}
  IN IF src = {} THEN NoFile
     ELSE LET last == CHOOSE ab \in src : \A cd \in src : cd[1] <= ab[1]
          IN StripDotDot(SubSeq(text, last[1], last[2]))

\* C14: the classifier returns the last space-delimited token that ends in
\* .cpp, .cc or .c and contains a '/', with its leading "../" removed, and
\* none when there is no such token; a token with such a suffix in its
\* middle is never selected.
C14_ReturnsLastSourceToken ==
  cls.pc \in {"classified", "reclassified"}
    => cls.found = LastSourceToken(cls.text)

\* C15 as stated: classifying a returned filename returns it again.
C15_Idempotent ==
  cls.pc = "reclassified" => cls.again = cls.found

\* C15 amended: classifying a returned filename that contains a '/' returns
\* it again.
C15_IdempotentWithSlash ==
  (cls.pc = "reclassified" /\ \E i \in 1 .. Len(cls.found) : cls.found[i] = 47)
    => cls.again = cls.found

\* A filename with a '/' was returned for a command line of several words
\* and classified again.
C15_Witness ==
  /\ cls.pc = "reclassified" /\ cls.again = cls.found
  /\ \E i \in 1 .. Len(cls.found) : cls.found[i] = 47
  /\ Len(cls.found) < Len(cls.text)
  /\ \E i \in 1 .. Len(cls.text) : cls.text[i] = 32

\* C16: while the memory probe reports the unknown state the monitor loop
\* keeps running; its thread does not end.
C16_MonitorSurvivesUnknownProbe ==
  ProbeUnknown(get_memory_stats(meminfo)) => mon.pc # "stopped"

\* What a make owns of the region and the monitor.
Local(me) ==
  <<me.shared_data, me.shared_memory_fd, me.already_started,
    me.monitor_thread_running, me.thread, me.monitor_stderr_fd>>

\* C17: a call of save_memory_profiles, cleanup_shared_memory,
\* start_memory_monitor or die by a sub-make writes no cache file, leaves the
\* mapping, the descriptor, the name of the region and the region itself as
\* they were, starts no monitor thread, and its die() invokes neither the
\* flush nor the cleanup.
C17_SubMakeTouchesNothing ==
  [][ps'["submake"] # ps["submake"]
     /\ ps'["submake"].last \in {"save", "cleanup", "start", "die"}
     => /\ Local(ps'["submake"]) = Local(ps["submake"])
        /\ host'.cache_writers = host.cache_writers
        /\ host'.linked = host.linked
        /\ shared' = shared
        /\ ps'["submake"].thread = "none"
        /\ "submake" \notin host'.die_invoked]_vars

\* A sub-make with the region attached has called all four and has exited.
C17_Witness ==
  /\ ps["submake"].called = {"init", "save", "cleanup", "start", "die"}
  /\ ps["submake"].shared_data = "mapped"
  /\ ~alive["submake"]

\* C18: after die() of the top-level make has torn down a region that was
\* mapped, the region is unmapped, its descriptor is closed and the name
\* /make_memory_shared is gone from the host.
C18_TeardownUnlinksName ==
  (ps["top"].dying = 1 /\ host.torn)
    => /\ ps["top"].shared_data = "NULL"
       /\ ps["top"].shared_memory_fd = -1
       /\ ~host.linked

\* C19 as stated: once the monitor is stopped (a stop_memory_monitor call has
\* returned, or the renderer has cleared the run flag after a failed write)
\* no write is issued to monitor_stderr_fd.
C19_NoWriteAfterStop == ~host.late

\* C19 amended: once a call stop_memory_monitor(0) that found the run flag
\* set has returned, no write is issued to monitor_stderr_fd by any thread.
C19_NoWriteAfterJoinedStop == ~host.late_joined

\* A stop that joined has returned, a further stop call and the atexit
\* cleanup have followed it.
C19_Witness ==
  /\ host.joined /\ host.stops = 2 /\ host.atexit
  /\ ps["top"].stop.pc = "idle"

C22_LiveFileIsOneCompleteRun ==
  LET fs == host.files IN
  fs.live # 0
    => \E r \in 1 .. MaxCalls :
         /\ fs.len[r] > 0
         /\ fs.data[fs.live] = [i \in 1 .. fs.len[r] |-> r]

\* C23: a tick that starts with total_reserved_mb different from the sum of
\* the table, and during which no reserve_memory_mb call runs, ends with
\* total_reserved_mb equal to the sum of the table.
C23_TickHealsTotal ==
  [][(mon.pc = "exits" /\ mon'.pc \in {"sleep", "left"} /\ mon.calm)
       => total_reserved_mb' = TableSum']_vars

\* C24: a step of a call reserve_memory_mb (p, mb) leaves every slot that
\* holds another pid q # p (q # 0) as it was.
C24_OnlyOwnSlotChanges ==
  [][\A s \in Slots :
       reservations'[s] # reservations[s]
         => \E t \in Threads :
              /\ th'[t] # th[t]
              /\ reservations[s].pid \in {0, th[t].pid}]_vars


\* A step of thread t's positive call that has found its slot while the slot
\* already holds the pid and the amount of the call, as it does when the
\* same call has just been made.
RepeatStep(t) ==
  /\ th'[t] # th[t] /\ th[t].mb > 0 /\ th[t].res # NULL
  /\ th[t].pc \in {"r_old", "r_write", "r_lock_add", "r_add_total"}
  /\ reservations[th[t].res] = [pid |-> th[t].pid, reserved_mb |-> th[t].mb]
  /\ th[t].pc # "r_old" => th[t].old_value = th[t].mb

\* The last step of thread t's positive call, which updates the total.
TotalStep(t) == th[t].pc = "r_add_total" /\ th'[t].pc = "r_done"

FirstExited ==
  CHOOSE i \in TrackedIdx : Exited(i) /\ \A j \in TrackedIdx : j < i => ~Exited(j)

\* C26: the peak of the final update for an exited descendant with a profile
\* is the greatest memory the walker saw of that process.  current_mb holds
\* that value: it is set when the entry is made and at the first visit
\* (main.c:1661, 1700-1704) and only raised by the later visits.
C26_FinalPeakIsOwnMaximum ==
  [][(mon.pc = "exits" /\ compile_count' = compile_count - 1)
       => LET e == descendants[FirstExited]
          IN  (e.profile_idx >= 0 /\ (e.peak_mb > 0 \/ e.old_peak_mb > 0))
                => e.peak_mb = e.current_mb]_vars

\* C27: at the top level the region is unmapped only when the monitor
\* thread has stopped and no child is left, and the monitor thread never
\* goes through shared_data after the region was unmapped.
C27_UnmapsAfterMonitorAndChildren ==
  /\ ps["top"].shared_data # "mapped"
       => /\ ps["top"].thread # "running"
          /\ \A c \in JobPids : procs[c].state # "running"
  /\ ~host.after_unmap

\* C28: init_shared_memory of the top-level make on a region that already
\* existed resets the counters and the reservation table and leaves both
\* mutexes as they were.
C28_ReuseKeepsMutexes ==
  [][(/\ ps["top"].shared_data = "NULL" /\ ps'["top"].shared_data = "mapped"
      /\ host.linked)
       => /\ reservation_count' = 0 /\ total_reserved_mb' = 0
          /\ unused_peaks_mb' = 0
          /\ \A s \in Slots : reservations'[s] = [pid |-> 0, reserved_mb |-> 0]
          /\ UNCHANGED <<reserved_count_mutex, total_reserved_mb_mutex>>]_vars

\* The end of a tick.
TickEnds == mon.pc = "exits" /\ mon'.pc \in {"sleep", "left"}

\* The entry of process q in the table as the tick in progress found it, and
\* as the step leaves it; NoDescendant if there is none.
EntryAtStart(q) ==
  LET i == DescIdx(hist.start.descendants, hist.start.compile_count, q)
  IN  IF i < 0 THEN NoDescendant ELSE hist.start.descendants[i]

EntryAfter(q) ==
  LET i == DescIdx(descendants', compile_count', q)
  IN  IF i < 0 THEN NoDescendant ELSE descendants'[i]

\* C29 (as stated): a tracked descendant that is alive and has left the tree
\* of the top-level make (its parent is init) has no entry in the table when
\* the next tick ends.
C29_OrphanDroppedAtNextTick ==
  [][TickEnds
       => \A q \in hist.orphans :
            Exists(q) => DescIdx(descendants', compile_count', q) < 0]_vars

\* C29 (amended): a tracked descendant that is alive and has left the tree
\* keeps its entry, unchanged, over every tick, and when its process is gone
\* the exit loop removes the entry and submits the peak recorded in the tree
\* as the final update.
C29_OrphanKeptUntilExit ==
  [][/\ TickEnds
          => \A q \in hist.orphans :
               Exists(q) => EntryAfter(q) = EntryAtStart(q)
     /\ (mon.pc = "exits" /\ compile_count' = compile_count - 1)
          => LET e == descendants[FirstExited]
             IN  (/\ procs[e.pid].ppid = 1 /\ e.profile_idx >= 0
                  /\ (e.peak_mb > 0 \/ e.old_peak_mb > 0))
                   => /\ last_record'.final /\ last_record'.idx = e.profile_idx
                      /\ last_record'.memory_mb = e.peak_mb]_vars

\* The exit loop of a tick has run, and a process with a profile that had
\* left the tree before the tick started is alive and still in the table.
C29_Witness ==
  /\ mon.pc = "exits" /\ \A i \in TrackedIdx : ~Exited(i)
  /\ \E q \in hist.orphans :
       /\ Exists(q)
       /\ DescIdx(descendants, compile_count, q) >= 0
       /\ descendants[DescIdx(descendants, compile_count, q)].profile_idx >= 0


\* ------------------------------------------------------------ SpecIndex

\* The monitor thread ticks while the jobs of the top-level make, one more
\* than the job slots, come, grow, shrink and go; no process has a child and
\* no sub-make runs.  The store is empty, or holds the second path of the
\* build alone with a peak.
InitIndex ==
  /\ RegionWith(0, 0)
  /\ th = [t \in Threads |-> IdleFrame]
  /\ gate = [t \in Threads |-> GateIdle]
  /\ alive = [p \in Procs |-> p = "top"]
  /\ calls = 0
  /\ procs = [c \in JobPids \cup {12 + MaxJobs} |-> NoProc]
  /\ descendants = [i \in TrackedIdx |-> NoDescendant]
  /\ compile_count = 0
  /\ mon = MonIdle
  /\ cls = NoText /\ host = QuietHost /\ hist = NoHistory
  /\ \E names \in {<<>>, <<1>>} :
       /\ ps = [RunningBuild EXCEPT !["top"].filenames = names]
       /\ ProfilesAre([i \in ProfileIdx |-> IF i < Len(names) THEN 1 ELSE 0])
  /\ HostFree(MaxFreeMb - 1)

SpecIndex == InitIndex /\ [][NextWalk]_vars

\* The entries of the table in use that follow a process with the path
\* path that still runs.
Compiling(path) ==
  {i \in TrackedIdx :
     /\ i < compile_count
     /\ Exists(descendants[i].pid)
     /\ PathOf(descendants[i].pid) = path}

\* The store and the table at rest: no two entries of the store hold the
\* same path; the profile index of an entry of the table is -1 or below
\* memory_profile_count, and the store holds at it the path of the entry's
\* process; the running processes that the walker has visited in this tick
\* are in the table, each in an entry of its own, and those with one path
\* have one profile index.
IndexSound ==
  LET names == ps["top"].filenames IN
  /\ \A i, j \in 1 .. Len(names) : names[i] = names[j] => i = j
  /\ \A i \in TrackedIdx :
       i < compile_count =>
         LET e == descendants[i] IN
           /\ e.profile_idx = NULL
                \/ (e.profile_idx >= 0 /\ e.profile_idx < memory_profile_count)
           /\ (Exists(e.pid) /\ e.profile_idx # NULL)
                => names[e.profile_idx + 1] = PathOf(e.pid)
  /\ \A q \in DOMAIN procs :
       (q \in mon.visited \ mon.skipped /\ Exists(q))
         => Cardinality({i \in TrackedIdx :
                           i < compile_count /\ descendants[i].pid = q}) = 1
  /\ \A path \in ProfileIdx :
       \A i, j \in Compiling(path) :
         /\ descendants[i].profile_idx = descendants[j].profile_idx
         /\ descendants[i].pid = descendants[j].pid => i = j

\* A step keeps the store and the table: memory_profile_count does not
\* decrease, an entry of the store keeps its path, and the entry of a process
\* keeps its profile index wherever the table holds it after the step.
IndexKept ==
  LET names == ps["top"].filenames IN
  /\ Len(ps'["top"].filenames) >= Len(names)
  /\ \A i \in 1 .. Len(names) : ps'["top"].filenames[i] = names[i]
  /\ \A i, j \in TrackedIdx :
       (i < compile_count /\ j < compile_count'
          /\ descendants'[j].pid = descendants[i].pid)
         => descendants'[j].profile_idx = descendants[i].profile_idx

C31_WalkReadsOnlyEntries ==
  [][\A q \in WalkPids :
       (mon.pc \in {"walk", "walk_call"} /\ q \notin mon.visited
          /\ q \in mon'.visited \ mon'.skipped)
         => LET i == DescIdx(descendants', compile_count', q)
            IN  0 <= i /\ i < compile_count']_vars


\* The gate call of thread t has answered go for a requirement, on a known
\* probe, and the caller has not yet acted on it.
Admitted(t) ==
  /\ GateDone(t) /\ gate[t].decision = "go" /\ gate[t].required > 0
  /\ ProbeKnown(gate[t])

\* What the gate call of thread t took as free - imminent.
RoomSeen(t) ==
  EffectiveFree(gate[t].stats[1],
                get_imminent_memory_mb(gate[t].reserved_mb,
                                       gate[t].unused_peaks_mb))

\* C32: admission is free of check-then-reserve races.  When the gate calls
\* of two build processes have both answered go, the sum of the two
\* requirements was at most free - imminent as the first of the two decisions
\* saw it, so that two jobs that fit only one at a time are never both
\* admitted.
C32_AdmittedPairFits ==
  \A t, u \in GateCallers :
    (t # u /\ Admitted(t) /\ Admitted(u))
      => \/ gate[t].required + gate[u].required <= RoomSeen(t)
         \/ gate[t].required + gate[u].required <= RoomSeen(u)


\* ------------------------------------------------------------ SpecTwoBuilds

\* Two builds on one host.  The processes of a build that runs already, the
\* pids OtherPid (s), live through the run and make no call; they hold the
\* reservations of the region /make_memory_shared, the one name every build
\* on the host opens (main.c:881).  The top-level make of a second build and
\* a sub-make of it start and call the functions that set the region up and
\* tear it down.
InitTwoBuilds ==
  /\ hist = NoHistory
  /\ cls = NoText /\ host = QuietHost
  /\ \E n \in 1 .. MAX_RESERVATIONS : RegionWith(n, 1)
  /\ ThreadsIdle
  /\ ProfilesAre([i \in ProfileIdx |-> 0])
  /\ \E f \in 1 .. MaxFreeMb : HostFree(f)
  /\ ps = [p \in Procs |-> NoMake]

SpecTwoBuilds == InitTwoBuilds /\ [][NextTeardown]_vars

\* The reservations of the processes of the other build.
HeldByOthers(tab) ==
  SumOccupied([s \in Slots |->
                 IF \E i \in Slots : tab[s].pid = OtherPid(i) THEN tab[s]
                 ELSE [pid |-> 0, reserved_mb |-> 0]],
              MAX_RESERVATIONS)

\* C33: zeroing the region at the start of a top-level make never discards
\* the reservation of a live process.  With two independent builds on one
\* host, a reservation that a live process has written stays in the table
\* and in total_reserved_mb until that process releases it.
C33_ZeroingKeepsLiveReservations ==
  [][/\ \A s \in Slots :
          (\E i \in Slots : reservations[s].pid = OtherPid(i))
            => reservations'[s] = reservations[s]
     /\ total_reserved_mb' >= HeldByOthers(reservations)]_vars


\* ------------------------------------------------------------ SpecReinit

\* The end of a build whose profiles hold peaks: the top-level make goes
\* through die() while its jobs run and its monitor thread ticks and
\* releases the reservations of the jobs it discovers; other sub-makes of
\* the build hold reservations.  The region was set up at startup.
InitReinit ==
  /\ \E n \in 0 .. MAX_RESERVATIONS : RegionWith(n, 1)
  /\ ThreadsIdle
  /\ hist = NoHistory
  /\ cls = NoText /\ ps = RunningBuild /\ host = QuietHost
  /\ ProfilesAre([i \in ProfileIdx |-> 1])
  /\ \E f \in 1 .. (MaxFreeMb - 1) : HostFree(f)

\* The main thread takes its steps of die() between two reserve_memory_mb
\* calls of the monitor thread.
NextReinit ==
  \/ th["mon"].pc = "idle" /\ NextDie
  \/ ReleaseStep("mon")
  \/ WalkerReturn

SpecReinit == InitReinit /\ [][NextReinit]_vars

\* C34: the top-level make zeroes the region at most once per build, at
\* startup and before any reservation of the build is written.  No later
\* reserve_memory_mb, get_imminent_memory_mb or release of the walker, none
\* after cleanup_shared_memory has reset shared_data during die() in
\* particular, maps and zeroes the region again.
C34_ZeroedOnlyAtStartup ==
  [][~(/\ ps["top"].shared_data # "mapped"
       /\ ps'["top"].shared_data = "mapped")]_vars


\* ------------------------------------------------------------ SpecToggle

\* A top-level make and a sub-make, each with its options decoded and its
\* own value of MAKE_MEMORY_AWARE, run from there to their exit.  The object
\* /make_memory_shared is absent, or was left by an earlier build with some
\* slots taken.
InitToggle ==
  /\ hist = NoHistory
  /\ cls = NoText
  /\ host \in {QuietHost, [QuietHost EXCEPT !.linked = FALSE]}
  /\ \E n \in 0 .. MAX_RESERVATIONS :
       /\ ~host.linked => n = 0
       /\ RegionWith(n, 1)
  /\ ThreadsIdle
  /\ ProfilesAre([i \in ProfileIdx |-> 0])
  /\ HostFree(MaxFreeMb)
  /\ \E e \in [Procs -> EnvValues], o \in [Procs -> {-1, 0, 1}] :
       ps = [p \in Procs |->
               [NoMake EXCEPT !.env = e[p], !.switch = o[p],
                              !.memory_aware_flag = o[p],
                              !.main = "decoded"]]

NextToggle == \E p \in Procs : MainStep(p)

SpecToggle == InitToggle /\ [][NextToggle]_vars

\* C35: with memory awareness switched off through MAKE_MEMORY_AWARE (0, no
\* or false) and no switch on the command line, the process never creates,
\* maps or zeroes the shared region, never starts the monitor and never
\* opens the profile cache files, from its start through die().
C35_SwitchedOffTouchesNothing ==
  \A p \in Procs :
    (ps[p].env \in {"0", "no", "false"} /\ ps[p].switch = -1)
      => /\ ps[p].shared_data = "NULL" /\ ps[p].shared_memory_fd = -1
         /\ ps[p].already_started = 0 /\ ps[p].thread = "none"
         /\ p \notin host.die_invoked


\* ------------------------------------------------------------ SpecExit

\* SpecDie with the contents of the cache file followed.
InitExit ==
  /\ RegionWith(0, 0)
  /\ ThreadsIdle
  /\ hist = NoHistory
  /\ cls = NoText /\ ps = RunningBuild
  /\ host = [QuietHost EXCEPT !.cache.on = TRUE]
  /\ ProfilesAre([i \in ProfileIdx |-> 0])
  /\ \E f \in 1 .. (MaxFreeMb - 1) : HostFree(f)

SpecExit == InitExit /\ [][NextDie]_vars

\* The cache file holds every peak of the store.
CacheHoldsStore ==
  \A i \in ProfileIdx :
    memory_profiles[i] > 0
      => (host.cache.image # <<>> /\ host.cache.image[i] = memory_profiles[i])

\* C36: when the top-level make has exited normally the cache file holds the
\* final state of the profile store.  Every update that the monitor made
\* before the process ended, the final updates of the children that still
\* ran when die() started and were reaped inside die() included, has been
\* written by some flush (no save having failed to write, and the exit
\* handler having joined the monitor thread).
C36_ExitLeavesStoreInCache ==
  (ps["top"].die = "gone" /\ host.joined /\ host.cache.ok) => CacheHoldsStore


\* C37: the reservation table is well formed in every reachable state, under
\* any interleaving of the reserve and release calls of several processes and
\* of the two threads of the top-level make: reservation_count never
\* decreases and never exceeds MAX_RESERVATIONS, every slot with a pid has an
\* index below reservation_count, every free slot (pid 0) has reserved_mb 0,
\* and no two slots hold the same pid.
C37_TableWellFormed ==
  /\ [](/\ reservation_count <= MAX_RESERVATIONS
        /\ \A s \in Slots :
             /\ reservations[s].pid # 0 => s < reservation_count
             /\ reservations[s].pid = 0 => reservations[s].reserved_mb = 0
        /\ \A s, r \in Slots :
             (reservations[s].pid # 0
                /\ reservations[s].pid = reservations[r].pid) => s = r)
  /\ [][reservation_count' >= reservation_count]_vars


\* ------------------------------------------------------------ SpecBar

\* One call of display_memory_status with the display enabled, for every
\* probe result the monitor passes on (main.c:1792-1797 return at 0 percent;
\* get_memory_stats gives 100 percent when less than a hundredth of the
\* memory is available, main.c:1206-1211) on hosts from a few MiB to some
\* GiB free, with and without memory of the build and imminent memory.
InitBar ==
  /\ RegionWith(0, 0)
  /\ ThreadsIdle
  /\ hist = NoHistory
  /\ cls = NoText
  /\ ps = [RunningBuild EXCEPT !["top"].disable_memory_display = 0]
  /\ ProfilesAre([i \in ProfileIdx |-> 0])
  /\ HostFree(MaxFreeMb - 1)
  /\ \E p \in 1 .. 100, f \in {0, 1, 49, 50, 99, 100, 4096},
        m \in {0, 512}, i \in {0, 512} :
       host = [QuietHost EXCEPT
                 !.bar = [@ EXCEPT !.pc = "called", !.mem_percent = p,
                                   !.free_mb = f, !.make_usage_mb = m,
                                   !.imminent_mb = i]]

SpecBar == InitBar /\ [][DrawBar]_vars

\* C38: rendering the status line never divides by zero.  For every probe
\* result passed to display_memory_status with the display enabled, any
\* free_mb >= 0 and any used percentage from 1 to 100 (100 percent used, and
\* free_mb smaller than 100 - percent, included), the total memory that
\* divides the zones of the bar is not 0 and the four widths are well
\* defined.
C38_BarNeverDividesByZero ==
  host.bar.pc # "called"
    => /\ ~host.bar.div0
       /\ host.bar.pc = "drawn" /\ Len(host.bar.zones) = 4

=========================================================================
